---- MODULE Spec2Model ----
(***************************************************************************)
(* The ignite virtual machine of rustscript: the fetch-execute loop `run`  *)
(* (vm/ignite/src/runtime.rs), its scheduler (yield, block, signal_post,   *)
(* join, zombify), SPAWN (micro_code/spawn.rs), LDF (micro_code/ldf.rs)    *)
(* and the mark-and-sweep collector (runtime/gc.rs).                       *)
(*                                                                         *)
(* The runtime is one record `rt`, and every Rust function Runtime ->      *)
(* Runtime is an operator on that record, under the name it has in the     *)
(* source.  `phase` is the position of `run` inside one turn of its loop.  *)
(* Wall-clock time is not modelled: at the top of each turn the quantum    *)
(* either has expired or has not.                                          *)
(*                                                                         *)
(* runtime.rs dispatches SPAWN to micro_code::spawn (runtime.rs:144).  The *)
(* body of spawn.rs does not touch the thread-state table, although its    *)
(* doc comment (spawn.rs:6) says the child is added to it as Ready.  Under  *)
(* Spec the runtime is handed to run as Runtime::new builds it, so no      *)
(* thread that SPAWN creates is ever in the table.  Under SpecCaller the   *)
(* caller of the crate first steps the main thread itself with the public  *)
(* fetch_instr and execute and enters each child in the table with the     *)
(* public set_thread_state, and only then calls run.                       *)
(***************************************************************************)
EXTENDS Integers, Sequences, FiniteSets, TLC

VARIABLES
    rt,       \* the Runtime
    phase,    \* where run is in its loop, or how it ended
    err,      \* the VmError or panic message run ended with
    last,     \* history: what the last step did
    waiting,  \* history: <<thread, semaphore>> of every WAIT that blocked and
              \* whose semaphore has not been signalled since
    hist      \* history: the numbers of ENTERSCOPE and of EXITSCOPE executed
              \* and the addresses of all the instructions executed

vars == <<rt, phase, err, last, waiting, hist>>

----------------------------------------------------------------------------
(* Bounds of the model. *)

\* Largest initial counter of a semaphore.
MaxSemInit == 1

\* SPAWN is not taken once this many threads have been created.
MaxThreads == 4

----------------------------------------------------------------------------
(* Values (bytecode Value), thread states, frames. *)

MAIN_THREAD_ID == 1

IntV(n) == [t |-> "Int", iv |-> n]
BoolV(b) == [t |-> "Bool", bv |-> b]
Unit == [t |-> "Unit"]
Unitialized == [t |-> "Unitialized"]
SemV(h) == [t |-> "Semaphore", h |-> h]
Closure(addr, prms, env) ==
    [t |-> "Closure", fn_type |-> "User", sym |-> "Closure",
     prms |-> prms, addr |-> addr, env |-> env]

\* Value::Float and Value::String.  A float is kept as the expression that
\* denotes it, a sequence of names: <<"PI">>, <<"cos", "PI">>.
FloatV(x) == [t |-> "Float", f64 |-> x]
StringV(s) == [t |-> "String", sv |-> s]

\* std::i64::MAX and std::i64::MIN, which the integers of the checker cannot
\* hold, are Value::Int of a named number.
I64(name) == [t |-> "Int", i64 |-> <<name>>]

Ready == [s |-> "Ready"]
Yielded == [s |-> "Yielded"]
Done == [s |-> "Done"]
Zombie == [s |-> "Zombie"]
Blocked(h) == [s |-> "Blocked", sem |-> h]
Joining(tid) == [s |-> "Joining", tid |-> tid]

\* Option<T>: None is the empty sequence, Some(x) is <<x>>.
None == <<>>
Some(x) == <<x>>

\* The two semaphores of the programs below, by handle (Arc identity).
S1 == SemV(1)
S2 == SemV(2)
SemHandles == {1, 2}

\* The global environment (Environment::new_global) has id 1 in the registry.
GlobalEnv == 1

\* A builtin (builtin/math/cos.rs: fn_type Builtin, addr 0, env the global
\* environment).
Builtin(sym, prms) ==
    [t |-> "Closure", fn_type |-> "Builtin", sym |-> sym,
     prms |-> prms, addr |-> 0, env |-> GlobalEnv]

BlockFrame(env) == [frame_type |-> "BlockFrame", env |-> env]
CallFrame(env, address) == [frame_type |-> "CallFrame", env |-> env, address |-> address]

----------------------------------------------------------------------------
(* Bytecode. *)

DONE == [op |-> "DONE"]
POP == [op |-> "POP"]
YIELD == [op |-> "YIELD"]
WAIT == [op |-> "WAIT"]
POST == [op |-> "POST"]
EXITSCOPE == [op |-> "EXITSCOPE"]
LDC(v) == [op |-> "LDC", val |-> v]
LD(sym) == [op |-> "LD", sym |-> sym]
ASSIGN(sym) == [op |-> "ASSIGN", sym |-> sym]
LDF(addr, prms) == [op |-> "LDF", addr |-> addr, prms |-> prms]
GOTO(a) == [op |-> "GOTO", addr |-> a]
ENTERSCOPE(syms) == [op |-> "ENTERSCOPE", syms |-> syms]
CALL(n) == [op |-> "CALL", arity |-> n]
RESET == [op |-> "RESET", ft |-> "CallFrame"]
SPAWN(a) == [op |-> "SPAWN", addr |-> a]
JOIN(tid) == [op |-> "JOIN", tid |-> tid]
UNOP(o) == [op |-> "UNOP", unop |-> o]
BINOP(o) == [op |-> "BINOP", binop |-> o]
JOF(a) == [op |-> "JOF", addr |-> a]

----------------------------------------------------------------------------
(* Results of fallible operations: Ok(runtime), Err(error) as returned by  *)
(* `?`, or a Rust panic (expect / panic!).                                 *)

Ok(r) == [out |-> "ok", rt |-> r]
Err(e, r) == [out |-> e, rt |-> r]
Panic(msg, r) == [out |-> "panic", msg |-> msg, rt |-> r]

\* HashMap::remove
MapRemove(m, k) == [x \in (DOMAIN m) \ {k} |-> m[x]]
\* HashMap::insert
MapInsert(m, k, v) == (k :> v) @@ m

----------------------------------------------------------------------------
(* Threads and the runtime (Runtime::new). *)

Thread_new(thread_id) ==
    [thread_id |-> thread_id, pc |-> 0, operand_stack |-> <<>>,
     runtime_stack |-> <<>>, env |-> GlobalEnv]

\* Thread::spawn_child: the child starts from a copy of the parent.
spawn_child(parent, child_thread_id, addr) ==
    [thread_id |-> child_thread_id, pc |-> addr,
     operand_stack |-> parent.operand_stack,
     runtime_stack |-> parent.runtime_stack, env |-> parent.env]

Environment_new == [parent |-> None, env |-> <<>>]

\* Environment::new_global: the root frame with the constants and the
\* builtins.  The parameter vector of a builtin: cos.rs has ["x"]; the
\* others by their arity.
Environment_new_global ==
    LET unary == {"abs", "cos", "sin", "tan", "log", "sqrt", "string_len",
                  "int_to_float", "float_to_int", "atoi", "itoa", "print",
                  "println"}
        binary == {"pow", "max", "min"}
    IN  [parent |-> None,
         env |-> ("true" :> BoolV(TRUE)) @@ ("false" :> BoolV(FALSE))
                 @@ ("PI" :> FloatV(<<"PI">>)) @@ ("E" :> FloatV(<<"E">>))
                 @@ ("MAX_INT" :> I64("MAX")) @@ ("MIN_INT" :> I64("MIN"))
                 @@ ("MAX_FLOAT" :> FloatV(<<"MAX">>))
                 @@ ("MIN_FLOAT" :> FloatV(<<"MIN">>))
                 @@ ("EPSILON" :> FloatV(<<"EPSILON">>))
                 @@ [sym \in unary |-> Builtin(sym, <<"x">>)]
                 @@ [sym \in binary |-> Builtin(sym, <<"x", "y">>)]
                 @@ ("read_line" :> Builtin("read_line", <<>>))]

Runtime_new(instrs, sems) ==
    [instrs |-> instrs,
     signal |-> None,
     thread_count |-> 1,
     thread_states |-> (MAIN_THREAD_ID :> Ready),
     current_thread |-> Thread_new(MAIN_THREAD_ID),
     ready_queue |-> <<>>,
     blocked_queue |-> <<>>,
     zombie_threads |-> <<>>,
     sems |-> sems,
     env_registry |-> (GlobalEnv :> Environment_new_global),
     env_count |-> 1]

----------------------------------------------------------------------------
(* Scheduler: impl Runtime of runtime.rs. *)

has_current_thread_state(r) ==
    r.current_thread.thread_id \in DOMAIN r.thread_states

get_current_thread_state(r) ==
    r.thread_states[r.current_thread.thread_id]

set_thread_state(r, thread_id, state) ==
    [r EXCEPT !.thread_states = MapInsert(@, thread_id, state)]

should_yield_current_thread(r) == get_current_thread_state(r) = Yielded

\* A variant of yield_current_thread that switches to the thread queued last
\* instead of the one queued first.
yield_current_thread_lifo(r) ==
    LET r1 == set_thread_state(r, r.current_thread.thread_id, Ready)
        q == r1.ready_queue
    IN  IF q = <<>> THEN r1
        ELSE [r1 EXCEPT !.current_thread = q[Len(q)],
                        !.ready_queue = Append(SubSeq(q, 1, Len(q) - 1),
                                               r1.current_thread)]

\* A variant of yield_current_thread that leaves the thread's state as it
\* is.
yield_current_thread_keep_state(r) ==
    LET q == Append(r.ready_queue, r.current_thread)
    IN  [r EXCEPT !.current_thread = Head(q), !.ready_queue = Tail(q)]

yield_current_thread(r) ==
    LET r1 == set_thread_state(r, r.current_thread.thread_id, Ready)
        q == Append(r1.ready_queue, r1.current_thread)
    IN  [r1 EXCEPT !.current_thread = Head(q), !.ready_queue = Tail(q)]

\* A variant of zombify_current_thread that stores the thread without its
\* operands.
zombify_current_thread_no_operands(r) ==
    LET cur == [r.current_thread EXCEPT !.operand_stack = <<>>] IN
    IF r.ready_queue = <<>>
    THEN Panic("No threads in ready queue", r)
    ELSE Ok([r EXCEPT !.zombie_threads = MapInsert(@, cur.thread_id, cur),
                      !.thread_states = MapInsert(@, cur.thread_id, Zombie),
                      !.current_thread = Head(r.ready_queue),
                      !.ready_queue = Tail(r.ready_queue)])

zombify_current_thread(r) ==
    LET cur == r.current_thread IN
    IF r.ready_queue = <<>>
    THEN Panic("No threads in ready queue", r)
    ELSE Ok([r EXCEPT !.zombie_threads = MapInsert(@, cur.thread_id, cur),
                      !.thread_states = MapInsert(@, cur.thread_id, Zombie),
                      !.current_thread = Head(r.ready_queue),
                      !.ready_queue = Tail(r.ready_queue)])

\* A variant of is_current_main_thread that holds only once no other thread
\* is left to run.
is_current_main_thread_alone(r) ==
    /\ r.current_thread.thread_id = MAIN_THREAD_ID
    /\ r.ready_queue = <<>>

is_current_main_thread(r) == r.current_thread.thread_id = MAIN_THREAD_ID

is_current_thread_done(r) == get_current_thread_state(r) = Done

is_current_thread_joining(r) == get_current_thread_state(r).s = "Joining"

\* The arm Some(ThreadState::Zombie) of join_current_thread.
join_target_is_zombie(r) ==
    LET tid == get_current_thread_state(r).tid IN
    tid \in DOMAIN r.thread_states /\ r.thread_states[tid] = Zombie

\* A variant of join_current_thread that leaves the joined thread in the
\* thread-state table.
join_current_thread_keep_state(r) ==
    LET current_thread_id == r.current_thread.thread_id
        tid == get_current_thread_state(r).tid
    IN  IF tid \notin DOMAIN r.thread_states
        THEN Panic("Thread to join not found", r)
        ELSE IF r.thread_states[tid] = Zombie
        THEN LET r1 == set_thread_state(r, current_thread_id, Ready) IN
             IF tid \notin DOMAIN r1.zombie_threads
             THEN Err("ThreadNotFound", r1)
             ELSE LET os == r1.zombie_threads[tid].operand_stack
                  IN  IF os = <<>>
                      THEN Err("OperandStackUnderflow", r1)
                      ELSE Ok([r1 EXCEPT
                                 !.zombie_threads = MapRemove(@, tid),
                                 !.current_thread.operand_stack =
                                     Append(@, os[Len(os)])])
        ELSE Ok(yield_current_thread([r EXCEPT !.current_thread.pc = @ - 1]))

\* A variant of join_current_thread that yields without moving the PC back
\* when the target is not a zombie.
join_current_thread_no_rewind(r) ==
    LET current_thread_id == r.current_thread.thread_id
        tid == get_current_thread_state(r).tid
    IN  IF tid \notin DOMAIN r.thread_states
        THEN Panic("Thread to join not found", r)
        ELSE IF r.thread_states[tid] = Zombie
        THEN LET r1 == set_thread_state(r, current_thread_id, Ready) IN
             IF tid \notin DOMAIN r1.zombie_threads
             THEN Err("ThreadNotFound", r1)
             ELSE LET os == r1.zombie_threads[tid].operand_stack
                  IN  IF os = <<>>
                      THEN Err("OperandStackUnderflow", r1)
                      ELSE Ok([r1 EXCEPT
                                 !.zombie_threads = MapRemove(@, tid),
                                 !.thread_states = MapRemove(@, tid),
                                 !.current_thread.operand_stack =
                                     Append(@, os[Len(os)])])
        ELSE Ok(yield_current_thread(r))

join_current_thread(r) ==
    LET current_thread_id == r.current_thread.thread_id
        tid == get_current_thread_state(r).tid
    IN  IF tid \notin DOMAIN r.thread_states
        THEN Panic("Thread to join not found", r)
        ELSE IF r.thread_states[tid] = Zombie
        THEN LET r1 == set_thread_state(r, current_thread_id, Ready) IN
             IF tid \notin DOMAIN r1.zombie_threads
             THEN Err("ThreadNotFound", r1)
             ELSE LET zombie_thread == r1.zombie_threads[tid]
                      os == zombie_thread.operand_stack
                  IN  IF os = <<>>
                      THEN Err("OperandStackUnderflow", r1)
                      ELSE Ok([r1 EXCEPT
                                 !.zombie_threads = MapRemove(@, tid),
                                 !.thread_states = MapRemove(@, tid),
                                 !.current_thread.operand_stack =
                                     Append(@, os[Len(os)])])
        ELSE Ok(yield_current_thread([r EXCEPT !.current_thread.pc = @ - 1]))

is_current_thread_blocked(r) == get_current_thread_state(r).s = "Blocked"

\* A variant of block_current_thread that puts the blocked thread at the
\* front of the blocked queue.
block_current_thread_front(r) ==
    IF r.ready_queue = <<>>
    THEN Panic("No threads in ready queue", r)
    ELSE Ok([r EXCEPT !.blocked_queue = <<r.current_thread>> \o @,
                      !.current_thread = Head(r.ready_queue),
                      !.ready_queue = Tail(r.ready_queue)])

\* A variant of block_current_thread that does not keep the blocked thread.
block_current_thread_drop(r) ==
    IF r.ready_queue = <<>>
    THEN Panic("No threads in ready queue", r)
    ELSE Ok([r EXCEPT !.current_thread = Head(r.ready_queue),
                      !.ready_queue = Tail(r.ready_queue)])


block_current_thread(r) ==
    IF r.ready_queue = <<>>
    THEN Panic("No threads in ready queue", r)
    ELSE Ok([r EXCEPT !.blocked_queue = Append(@, r.current_thread),
                      !.current_thread = Head(r.ready_queue),
                      !.ready_queue = Tail(r.ready_queue)])

is_post_signaled(r) == r.signal # None

\* A variant of semaphore equality under which any two semaphores are equal.
sem_eq_any(r, h1, h2) == TRUE

\* Semaphore equality is Arc::ptr_eq (semaphore.rs): equality of handles,
\* whatever the counters stored under them.
sem_eq(r, h1, h2) == h1 = h2

\* A variant of signal_post that wakes the waiters and leaves the counter as
\* it is.
signal_post_no_count(r) ==
    LET sem == r.signal[1]
        r1 == [r EXCEPT !.signal = None]
        st(thread) == r.thread_states[thread.thread_id]
        woken == SelectSeq(r.blocked_queue,
                     LAMBDA th : st(th).s = "Blocked" /\ sem_eq(r1, sem, st(th).sem))
        blocked_threads == SelectSeq(r.blocked_queue,
                     LAMBDA th : st(th).s = "Blocked" /\ ~sem_eq(r1, sem, st(th).sem))
        wokenIds == {woken[i].thread_id : i \in 1..Len(woken)}
    IN  [r1 EXCEPT
                  !.thread_states =
                      [x \in DOMAIN @ |-> IF x \in wokenIds THEN Ready ELSE @[x]],
                  !.ready_queue = @ \o woken,
                  !.blocked_queue = blocked_threads]

\* A variant of signal_post that puts the woken threads at the front of the
\* ready queue.
signal_post_wake_front(r) ==
    LET sem == r.signal[1]
        r1 == [r EXCEPT !.signal = None, !.sems[sem] = @ + 1]
        st(thread) == r.thread_states[thread.thread_id]
        woken == SelectSeq(r.blocked_queue,
                     LAMBDA th : st(th).s = "Blocked" /\ sem_eq(r1, sem, st(th).sem))
        blocked_threads == SelectSeq(r.blocked_queue,
                     LAMBDA th : st(th).s = "Blocked" /\ ~sem_eq(r1, sem, st(th).sem))
        wokenIds == {woken[i].thread_id : i \in 1..Len(woken)}
    IN  [r1 EXCEPT
                  !.thread_states =
                      [x \in DOMAIN @ |-> IF x \in wokenIds THEN Ready ELSE @[x]],
                  !.ready_queue = woken \o @,
                  !.blocked_queue = blocked_threads]


signal_post(r) ==
    LET sem == r.signal[1]
        r1 == [r EXCEPT !.signal = None, !.sems[sem] = @ + 1]
        st(thread) == r.thread_states[thread.thread_id]
        woken == SelectSeq(r.blocked_queue,
                     LAMBDA th : st(th).s = "Blocked" /\ sem_eq(r1, sem, st(th).sem))
        blocked_threads == SelectSeq(r.blocked_queue,
                     LAMBDA th : st(th).s = "Blocked" /\ ~sem_eq(r1, sem, st(th).sem))
        wokenIds == {woken[i].thread_id : i \in 1..Len(woken)}
    IN  [r1 EXCEPT
                  !.thread_states =
                      [x \in DOMAIN @ |-> IF x \in wokenIds THEN Ready ELSE @[x]],
                  !.ready_queue = @ \o woken,
                  !.blocked_queue = blocked_threads]

----------------------------------------------------------------------------
(* Micro-operations (micro_code/*.rs), one per opcode. *)

Top(os) == os[Len(os)]
Pop(os) == SubSeq(os, 1, Len(os) - 1)

cur_id(r) == r.current_thread.thread_id

done(r) == Ok(set_thread_state(r, cur_id(r), Done))

yield_(r) == Ok(set_thread_state(r, cur_id(r), Yielded))

join(r, tid) == Ok(set_thread_state(r, cur_id(r), Joining(tid)))

ldc(r, val) == Ok([r EXCEPT !.current_thread.operand_stack = Append(@, val)])

pop(r) ==
    IF r.current_thread.operand_stack = <<>>
    THEN Err("OperandStackUnderflow", r)
    ELSE Ok([r EXCEPT !.current_thread.operand_stack = Pop(@)])

goto(r, addr) == Ok([r EXCEPT !.current_thread.pc = addr])

\* JOF: pop a bool; if it is false set PC = addr.
jof(r, addr) ==
    LET os == r.current_thread.operand_stack IN
    IF os = <<>> THEN Err("OperandStackUnderflow", r)
    ELSE IF Top(os).t # "Bool" THEN Err("TypeMismatch", r)
    ELSE Ok([r EXCEPT !.current_thread.operand_stack = Pop(@),
                      !.current_thread.pc = IF Top(os).bv THEN @ ELSE addr])

\* UNOP: pop one, apply, push.
unop(r, o) ==
    LET os == r.current_thread.operand_stack IN
    IF os = <<>> THEN Err("OperandStackUnderflow", r)
    ELSE IF o = "Neg" /\ Top(os).t = "Int"
    THEN Ok([r EXCEPT !.current_thread.operand_stack =
                          Append(Pop(@), IntV(0 - Top(os).iv))])
    ELSE IF o = "Not" /\ Top(os).t = "Bool"
    THEN Ok([r EXCEPT !.current_thread.operand_stack =
                          Append(Pop(@), BoolV(~Top(os).bv))])
    ELSE Err("TypeMismatch", r)

\* BINOP: pop rhs, pop lhs, apply, push.
binop(r, o) ==
    LET os == r.current_thread.operand_stack IN
    IF Len(os) < 2 THEN Err("OperandStackUnderflow", r)
    ELSE LET rhs == os[Len(os)]
             lhs == os[Len(os) - 1]
             rest == SubSeq(os, 1, Len(os) - 2)
         IN  IF o = "Eq"
             THEN IF lhs.t # rhs.t \/ lhs.t \notin {"Int", "Bool", "Float", "String"}
                  THEN Err("TypeMismatch", r)
                  ELSE Ok([r EXCEPT !.current_thread.operand_stack =
                              Append(rest, BoolV(lhs = rhs))])
             ELSE IF o \in {"And", "Or"}
             THEN IF lhs.t # "Bool" \/ rhs.t # "Bool" THEN Err("TypeMismatch", r)
                  ELSE Ok([r EXCEPT !.current_thread.operand_stack =
                              Append(rest, BoolV(IF o = "And" THEN lhs.bv /\ rhs.bv
                                                 ELSE lhs.bv \/ rhs.bv))])
             ELSE IF lhs.t # "Int" \/ rhs.t # "Int" THEN Err("TypeMismatch", r)
             ELSE IF o \in {"Div", "Mod"} /\ rhs.iv = 0 THEN Err("DivisionByZero", r)
             ELSE Ok([r EXCEPT !.current_thread.operand_stack =
                        Append(rest,
                          CASE o = "Add" -> IntV(lhs.iv + rhs.iv)
                            [] o = "Mod" -> IntV(lhs.iv - rhs.iv * (lhs.iv \div rhs.iv))
                            [] o = "Sub" -> IntV(lhs.iv - rhs.iv)
                            [] o = "Mul" -> IntV(lhs.iv * rhs.iv)
                            [] o = "Div" -> IntV(lhs.iv \div rhs.iv)
                            [] o = "Lt" -> BoolV(lhs.iv < rhs.iv)
                            [] o = "Gt" -> BoolV(lhs.iv > rhs.iv))])

\* WAIT: pop the semaphore; counter > 0: decrement and go on; counter = 0:
\* the thread's state becomes Blocked(sem).
wait(r) ==
    LET os == r.current_thread.operand_stack IN
    IF os = <<>> THEN Err("OperandStackUnderflow", r)
    ELSE IF Top(os).t # "Semaphore" THEN Err("TypeMismatch", r)
    ELSE LET h == Top(os).h
             r1 == [r EXCEPT !.current_thread.operand_stack = Pop(@)]
         IN  IF r1.sems[h] > 0
             THEN Ok([r1 EXCEPT !.sems[h] = @ - 1])
             ELSE Ok(set_thread_state(r1, cur_id(r1), Blocked(h)))

\* POST: pop the semaphore and record it in the one-slot pending field.
post(r) ==
    LET os == r.current_thread.operand_stack IN
    IF os = <<>> THEN Err("OperandStackUnderflow", r)
    ELSE IF Top(os).t # "Semaphore" THEN Err("TypeMismatch", r)
    ELSE Ok([r EXCEPT !.current_thread.operand_stack = Pop(@),
                      !.signal = Some(Top(os).h)])

\* A variant of spawn that gives the child empty stacks instead of copies of
\* the parent's.
spawn_fresh_stacks(r, addr) ==
    LET child_thread_id == r.thread_count + 1
        child == spawn_child(r.current_thread, child_thread_id, addr)
        child_thread == [child EXCEPT !.operand_stack = <<IntV(0)>>,
                                      !.runtime_stack = <<>>]
    IN  [r EXCEPT !.thread_count = child_thread_id,
                  !.current_thread.operand_stack = Append(@, IntV(child_thread_id)),
                  !.ready_queue = Append(@, child_thread)]

\* A variant of spawn that numbers the child after the threads that are in
\* the thread-state table, so that the ID of a deallocated thread is given
\* again.
spawn_reuse_id(r, addr) ==
    LET child_thread_id == Cardinality(DOMAIN r.thread_states) + 1
        child == spawn_child(r.current_thread, child_thread_id, addr)
        child_thread == [child EXCEPT !.operand_stack = Append(@, IntV(0))]
    IN  [r EXCEPT !.thread_count = child_thread_id,
                  !.current_thread.operand_stack = Append(@, IntV(child_thread_id)),
                  !.ready_queue = Append(@, child_thread)]

\* spawn.rs, as written: the thread-state table is not touched.
spawn(r, addr) ==
    LET child_thread_id == r.thread_count + 1
        child == spawn_child(r.current_thread, child_thread_id, addr)
        child_thread == [child EXCEPT !.operand_stack = Append(@, IntV(0))]
    IN  [r EXCEPT !.thread_count = child_thread_id,
                  !.current_thread.operand_stack = Append(@, IntV(child_thread_id)),
                  !.ready_queue = Append(@, child_thread)]

----------------------------------------------------------------------------
(* Environments (bytecode/src/environment.rs) and the micro-operations     *)
(* that use them.  env_registry maps the identity of an environment to the *)
(* frame it owns; thread and closure `env` fields are weak references, so  *)
(* an environment is allocated exactly while the registry has it.          *)

Range(f) == {f[x] : x \in DOMAIN f}

env_alive(r, e) == e \in DOMAIN r.env_registry

\* Environment::get: the frame's own binding, else the parent's.
RECURSIVE Environment_get(_, _, _)
Environment_get(r, e, sym) ==
    IF ~env_alive(r, e) THEN None
    ELSE IF sym \in DOMAIN r.env_registry[e].env
    THEN Some(r.env_registry[e].env[sym])
    ELSE IF r.env_registry[e].parent # None
    THEN Environment_get(r, r.env_registry[e].parent[1], sym)
    ELSE None

\* Environment::set: insert into this frame.
Environment_set(r, e, sym, val) ==
    [r EXCEPT !.env_registry[e].env = MapInsert(@, sym, val)]

\* The innermost frame of the chain from e that binds sym (None if none).
RECURSIVE binding_frame(_, _, _)
binding_frame(r, e, sym) ==
    IF ~env_alive(r, e) THEN None
    ELSE IF sym \in DOMAIN r.env_registry[e].env THEN Some(e)
    ELSE IF r.env_registry[e].parent # None
    THEN binding_frame(r, r.env_registry[e].parent[1], sym)
    ELSE None

\* A variant of ldf whose closure captures the global environment instead
\* of the current environment of the thread.
ldf_global(r, addr, prms) ==
    Ok([r EXCEPT !.current_thread.operand_stack =
                     Append(@, Closure(addr, prms, GlobalEnv))])

\* ldf.rs: the closure captures the current environment of the thread.
ldf(r, addr, prms) ==
    Ok([r EXCEPT !.current_thread.operand_stack =
                     Append(@, Closure(addr, prms, r.current_thread.env))])

ld(r, sym) ==
    LET got == Environment_get(r, r.current_thread.env, sym) IN
    IF got = None THEN Err("UnboundedName", r)
    ELSE IF got[1] = Unitialized THEN Err("UninitializedSymbol", r)
    ELSE Ok([r EXCEPT !.current_thread.operand_stack = Append(@, got[1])])

\* A variant of assign that inserts the value into the current frame itself,
\* whichever frame binds the symbol.
assign_set(r, sym) ==
    LET os == r.current_thread.operand_stack IN
    IF os = <<>> THEN Err("OperandStackUnderflow", r)
    ELSE IF ~env_alive(r, r.current_thread.env)
    THEN Err("EnvironmentDroppedPrematurely", r)
    ELSE Ok(Environment_set(
                [r EXCEPT !.current_thread.operand_stack = Pop(@)],
                r.current_thread.env, sym, Top(os)))

\* ASSIGN: the innermost frame that binds the symbol is updated (runtime.rs,
\* test_concurrency_03: an assignment inside a function changes the variable
\* of the enclosing scope).
assign(r, sym) ==
    LET os == r.current_thread.operand_stack
        fr == binding_frame(r, r.current_thread.env, sym)
    IN  IF os = <<>> THEN Err("OperandStackUnderflow", r)
        ELSE IF fr = None THEN Err("UnboundedName", r)
        ELSE Ok(Environment_set(
                    [r EXCEPT !.current_thread.operand_stack = Pop(@)],
                    fr[1], sym, Top(os)))

\* A fresh environment, recorded in the registry.
new_env(r, parent, bindings) ==
    [r EXCEPT !.env_count = @ + 1,
              !.env_registry =
                  MapInsert(@, r.env_count + 1, [parent |-> Some(parent), env |-> bindings])]


enter_scope(r, syms) ==
    LET cur == r.current_thread.env
        r1 == new_env(r, cur, [x \in Range(syms) |-> Unitialized])
    IN  IF ~env_alive(r, cur) THEN Err("EnvironmentDroppedPrematurely", r)
        ELSE Ok([r1 EXCEPT !.current_thread.runtime_stack = Append(@, BlockFrame(cur)),
                           !.current_thread.env = r1.env_count])

exit_scope(r) ==
    LET rs == r.current_thread.runtime_stack IN
    IF rs = <<>> THEN Err("RuntimeStackUnderflow", r)
    ELSE IF Top(rs).frame_type # "BlockFrame" THEN Err("IllegalArgument", r)
    ELSE Ok([r EXCEPT !.current_thread.runtime_stack = Pop(@),
                      !.current_thread.env = Top(rs).env])

\* The host function of a builtin on its arguments: the value it returns,
\* or the error.  Results on floats are kept as expressions.
builtin_impl(sym, args) ==
    LET val(v) == [out |-> "ok", val |-> v]
        mismatch == [out |-> "TypeMismatch"]
        is_int(v) == v.t = "Int" /\ "iv" \in DOMAIN v
        is_float(v) == v.t = "Float"
        x == args[1]
        y == args[2]
    IN  CASE sym = "abs" ->
                IF is_int(x) THEN val(IntV(IF x.iv < 0 THEN -x.iv ELSE x.iv))
                ELSE IF is_float(x) THEN val(FloatV(<<"abs">> \o x.f64))
                ELSE mismatch
          [] sym \in {"cos", "sin", "tan", "log", "sqrt"} ->
                IF is_float(x) THEN val(FloatV(<<sym>> \o x.f64)) ELSE mismatch
          [] sym = "pow" ->
                IF is_float(x) /\ is_float(y)
                THEN val(FloatV(<<"pow">> \o x.f64 \o y.f64)) ELSE mismatch
          [] sym \in {"max", "min"} ->
                IF is_int(x) /\ is_int(y)
                THEN val(IntV(IF (x.iv < y.iv) = (sym = "min") THEN x.iv ELSE y.iv))
                ELSE IF is_float(x) /\ is_float(y)
                THEN val(FloatV(<<sym>> \o x.f64 \o y.f64))
                ELSE mismatch
          [] sym = "string_len" ->
                IF x.t = "String" THEN val(IntV(Len(x.sv))) ELSE mismatch
          [] sym = "int_to_float" ->
                IF is_int(x) THEN val(FloatV(<<"int_to_float", ToString(x.iv)>>))
                ELSE mismatch
          [] sym = "float_to_int" ->
                IF is_float(x)
                THEN val([I64("float_to_int") EXCEPT !.i64 = @ \o x.f64])
                ELSE mismatch
          [] sym = "itoa" ->
                IF is_int(x) THEN val(StringV(ToString(x.iv))) ELSE mismatch
          [] sym = "atoi" ->
                IF x.t # "String" THEN mismatch
                ELSE IF \E n \in -99..99 : ToString(n) = x.sv
                THEN val(IntV(CHOOSE n \in -99..99 : ToString(n) = x.sv))
                ELSE [out |-> "BuiltinError"]
          [] sym = "read_line" -> val(StringV(""))
          [] sym \in {"print", "println"} -> val(Unit)

\* CALL(n).  A User closure: the new frame's parent is the closure's
\* captured environment, which must still be allocated.  A Builtin: the
\* arguments are popped, the host function is applied and its value pushed;
\* the runtime stack is left alone.
call(r, arity) ==
    LET os == r.current_thread.operand_stack
        n == Len(os)
    IN  IF n < arity + 1 THEN Err("OperandStackUnderflow", r)
        ELSE LET f == os[n - arity]
                 args == SubSeq(os, n - arity + 1, n)
             IN  IF f.t # "Closure" THEN Err("TypeMismatch", r)
                 ELSE IF Len(f.prms) # arity THEN Err("ArityParamsMismatch", r)
                 ELSE IF f.fn_type = "Builtin"
                 THEN LET res == builtin_impl(f.sym, args) IN
                      IF res.out # "ok" THEN Err(res.out, r)
                      ELSE Ok([r EXCEPT !.current_thread.operand_stack =
                                  Append(SubSeq(os, 1, n - arity - 1), res.val)])
                 ELSE IF ~env_alive(r, f.env) THEN Err("EnvironmentDroppedPrematurely", r)
                 ELSE LET r1 == new_env(r, f.env,
                                   [x \in Range(f.prms) |->
                                       args[CHOOSE i \in 1..arity : f.prms[i] = x]])
                      IN  Ok([r1 EXCEPT
                                !.current_thread.operand_stack = SubSeq(os, 1, n - arity - 1),
                                !.current_thread.runtime_stack =
                                    Append(@, CallFrame(r.current_thread.env, r.current_thread.pc)),
                                !.current_thread.env = r1.env_count,
                                !.current_thread.pc = f.addr])

\* A variant of RESET that pops the top frame only, whatever its type.
reset_top_frame(r, ft) ==
    LET rs == r.current_thread.runtime_stack IN
    IF rs = <<>> THEN Err("RuntimeStackUnderflow", r)
    ELSE Ok([r EXCEPT !.current_thread.runtime_stack = Pop(@),
                      !.current_thread.env = Top(rs).env,
                      !.current_thread.pc =
                          IF Top(rs).frame_type = "CallFrame"
                          THEN Top(rs).address ELSE @])

\* RESET(ft): pop frames until and including one of type ft.
RECURSIVE reset(_, _)
reset(r, ft) ==
    LET rs == r.current_thread.runtime_stack IN
    IF rs = <<>> THEN Err("RuntimeStackUnderflow", r)
    ELSE LET frame == Top(rs)
             r1 == [r EXCEPT !.current_thread.runtime_stack = Pop(@)]
         IN  IF frame.frame_type # ft THEN reset(r1, ft)
             ELSE Ok([r1 EXCEPT !.current_thread.env = frame.env,
                                !.current_thread.pc =
                                    IF ft = "CallFrame" THEN frame.address ELSE @])

----------------------------------------------------------------------------
(* The collector (runtime/gc.rs). *)

\* env_hashmap: every registry entry, unmarked.
env_hashmap(r) == [e \in DOMAIN r.env_registry |-> FALSE]

\* mark_env: a marking is [m, panicked]; marking an environment that is not
\* in the registry is the failed expect().
RECURSIVE mark_env(_, _, _)
mark_env(r, mk, env) ==
    IF mk.panicked THEN mk
    ELSE IF env \notin DOMAIN mk.m THEN [mk EXCEPT !.panicked = TRUE]
    ELSE IF mk.m[env] THEN mk
    ELSE LET mk1 == [mk EXCEPT !.m[env] = TRUE] IN
         IF r.env_registry[env].parent # None
         THEN mark_env(r, mk1, r.env_registry[env].parent[1])
         ELSE mk1

RECURSIVE mark_envs(_, _, _)
mark_envs(r, mk, envs) ==
    IF envs = <<>> THEN mk
    ELSE mark_envs(r, mark_env(r, mk, Head(envs)), Tail(envs))

\* mark_operand_stack: the environment of every closure on the stack.
closure_envs(os) ==
    LET cl == SelectSeq(os, LAMBDA v : v.t = "Closure")
    IN  [i \in 1..Len(cl) |-> cl[i].env]

mark_operand_stack(r, mk, os) == mark_envs(r, mk, closure_envs(os))

\* mark_runtime_stack: the environment saved in every frame.
mark_runtime_stack(r, mk, rs) ==
    mark_envs(r, mk, [i \in 1..Len(rs) |-> rs[i].env])

mark_thread(r, mk, th) ==
    mark_runtime_stack(r,
        mark_operand_stack(r, mark_env(r, mk, th.env), th.operand_stack),
        th.runtime_stack)

RECURSIVE mark_threads(_, _, _)
mark_threads(r, mk, ths) ==
    IF ths = <<>> THEN mk
    ELSE mark_threads(r, mark_thread(r, mk, Head(ths)), Tail(ths))

\* A variant of mark that also starts from the zombie threads.
mark_with_zombies(r) ==
    LET Z == DOMAIN r.zombie_threads
        zombies == [i \in 1..Cardinality(Z) |->
                       r.zombie_threads[CHOOSE t \in Z :
                           Cardinality({u \in Z : u < t}) = i - 1]]
    IN  mark_threads(r, [m |-> env_hashmap(r), panicked |-> FALSE],
                     <<r.current_thread>> \o r.ready_queue \o r.blocked_queue
                         \o zombies)

\* mark: the current thread, the ready queue, the blocked queue; zombies are
\* ignored.
mark(r) ==
    mark_threads(r, [m |-> env_hashmap(r), panicked |-> FALSE],
                 <<r.current_thread>> \o r.ready_queue \o r.blocked_queue)

\* A variant of sweep that removes nothing.
sweep_nothing(r, m) == r

\* A variant of sweep with the filter inverted: the unmarked entries stay.
sweep_unmarked(r, m) ==
    [r EXCEPT !.env_registry = [e \in {x \in DOMAIN @ : ~m[x]} |-> @[e]]]

\* sweep: keep the marked entries.
sweep(r, m) ==
    [r EXCEPT !.env_registry = [e \in {x \in DOMAIN @ : m[x]} |-> @[e]]]

mark_and_weep(r) ==
    LET mk == mark(r) IN
    IF mk.panicked THEN Panic("Environment must be in the registry", r)
    ELSE Ok(sweep(r, mk.m))

----------------------------------------------------------------------------
(* fetch_instr and execute (runtime.rs). *)

\* Addresses are zero-based; TLA+ sequences are one-based.
instr_at(r, pc) == r.instrs[pc + 1]

\* A variant of fetch_instr that advances the PC before looking the
\* instruction up, so that a failed fetch leaves the PC moved.
fetch_instr_advance_first(r) ==
    IF r.current_thread.pc >= Len(r.instrs)
    THEN [out |-> "PcOutOfBounds",
          pc  |-> r.current_thread.pc,
          rt  |-> [r EXCEPT !.current_thread.pc = @ + 1]]
    ELSE [out   |-> "ok",
          instr |-> instr_at(r, r.current_thread.pc),
          rt    |-> [r EXCEPT !.current_thread.pc = @ + 1]]

\* fetch_instr: instrs.get(pc).cloned().ok_or(PcOutOfBounds(pc))?; pc += 1.
\* The result carries the instruction fetched, or the PC named by the error,
\* together with the runtime as the call leaves it.
fetch_instr(r) ==
    IF r.current_thread.pc >= Len(r.instrs)
    THEN [out |-> "PcOutOfBounds", pc |-> r.current_thread.pc, rt |-> r]
    ELSE [out   |-> "ok",
          instr |-> instr_at(r, r.current_thread.pc),
          rt    |-> [r EXCEPT !.current_thread.pc = @ + 1]]

\* execute: dispatch on the opcode.
execute(r, instr) ==
    CASE instr.op = "DONE" -> done(r)
      [] instr.op = "ASSIGN" -> assign(r, instr.sym)
      [] instr.op = "LD" -> ld(r, instr.sym)
      [] instr.op = "LDC" -> ldc(r, instr.val)
      [] instr.op = "LDF" -> ldf(r, instr.addr, instr.prms)
      [] instr.op = "POP" -> pop(r)
      [] instr.op = "UNOP" -> unop(r, instr.unop)
      [] instr.op = "BINOP" -> binop(r, instr.binop)
      [] instr.op = "JOF" -> jof(r, instr.addr)
      [] instr.op = "GOTO" -> goto(r, instr.addr)
      [] instr.op = "RESET" -> reset(r, instr.ft)
      [] instr.op = "ENTERSCOPE" -> enter_scope(r, instr.syms)
      [] instr.op = "EXITSCOPE" -> exit_scope(r)
      [] instr.op = "CALL" -> call(r, instr.arity)
      [] instr.op = "SPAWN" -> Ok(spawn(r, instr.addr))
      [] instr.op = "JOIN" -> join(r, instr.tid)
      [] instr.op = "YIELD" -> yield_(r)
      [] instr.op = "WAIT" -> wait(r)
      [] instr.op = "POST" -> post(r)

----------------------------------------------------------------------------
(* Programs the runtime is constructed with. *)

\* Three children block on semaphores (two on S1, one on S2); main posts S1.
ProgWaitPost ==
    << LDC(S1), SPAWN(10), LDC(S2), SPAWN(10), LDC(S1), SPAWN(10),
       YIELD, LDC(S1), POST, DONE,
       POP, WAIT, DONE >>

\* wait s; post s; on one thread.
ProgWaitOne == << LDC(S1), WAIT, LDC(S1), POST, DONE >>

\* tests::test_concurrency_02 in short: spawn a child, join it.
ProgJoin == << SPAWN(3), JOIN(2), DONE, LDC(IntV(123)), DONE >>

\* The joined child ends with an empty operand stack.
ProgJoinEmpty == << SPAWN(3), JOIN(2), DONE, POP, DONE >>

\* tests::test_concurrency_01 with stacks to copy.
ProgSpawn ==
    << ENTERSCOPE(<<"a">>), LDC(IntV(9)), SPAWN(5), EXITSCOPE, DONE,
       POP, DONE >>

\* Spawn a child, join it, spawn another one.
ProgRespawn ==
    << SPAWN(4), JOIN(2), SPAWN(4), DONE, LDC(IntV(123)), DONE >>

\* A join on a ThreadID that was never given.
ProgJoinUnknown == << JOIN(3), DONE >>

\* The main thread blocks for ever and its child finishes.
ProgMainBlocked == << SPAWN(4), LDC(S1), WAIT, DONE, DONE >>

\* { let x = 1; { let y; x = 2; } x }
ProgAssignNested ==
    << ENTERSCOPE(<<"x">>), LDC(IntV(1)), ASSIGN("x"),
       ENTERSCOPE(<<"y">>), LDC(IntV(2)), ASSIGN("x"), EXITSCOPE,
       LD("x"), EXITSCOPE, DONE >>

\* Three threads, the main thread included, each run
\* wait s; <critical section>; post s; on the same semaphore, which the
\* program creates with counter 1.
ProgMutex ==
    << SPAWN(2), SPAWN(2),
       LDC(S1), WAIT, YIELD, LDC(S1), POST, DONE >>

\* The main thread joins its child twice.
ProgJoinTwice ==
    << SPAWN(4), JOIN(2), JOIN(2), DONE, LDC(IntV(7)), DONE >>

\* A join made inside a block with a value on the operand stack, on a child
\* that yields before it finishes.
\* runtime.rs, test_global_constants and test_global_functions.
ProgGlobalConstants == << LD("MAX_INT"), DONE >>
ProgGlobalFunctions == << LD("abs"), LDC(IntV(-42)), CALL(1), DONE >>

\* A program that jumps past its last instruction.
ProgRunOff == << LDC(IntV(42)), GOTO(4), DONE >>

ProgJoinInScope ==
    << ENTERSCOPE(<<"a">>), LDC(IntV(9)), SPAWN(6), JOIN(2), EXITSCOPE, DONE,
       YIELD, LDC(IntV(5)), DONE >>

\* Threads that never finish: main spins, two children yield in a loop.
ProgLoop == << SPAWN(3), SPAWN(3), GOTO(2), YIELD, GOTO(3) >>

\* Main spawns children for ever; each child finishes at once.
ProgSpawnLoop == << SPAWN(2), GOTO(0), DONE >>

\* A closure created inside a block, stored in a variable of the enclosing
\* block and called after the inner block is exited.
ProgClosure ==
    << ENTERSCOPE(<<"f">>), ENTERSCOPE(<<"x">>), LDC(IntV(5)), ASSIGN("x"),
       LDF(11, <<>>), EXITSCOPE, ASSIGN("f"), LD("f"), CALL(0), EXITSCOPE,
       DONE,
       LD("x"), RESET >>

\* gc.rs, test_gc_02: higher_order(10) returns the closure y => x + y, which
\* is applied to 20; the result is printed.
ProgHigherOrder ==
    <<ENTERSCOPE(<<"higher_order", "add10", "result">>),  \* 0
      LDF(4, <<"x">>), ASSIGN("higher_order"),             \* 1, 2
      GOTO(11),                                            \* 3
      LDF(6, <<"y">>), GOTO(10),                           \* 4, 5
      LD("x"), LD("y"), BINOP("Add"), RESET,               \* 6 .. 9
      RESET,                                               \* 10
      LD("higher_order"), LDC(IntV(10)), CALL(1),          \* 11 .. 13
      ASSIGN("add10"),                                     \* 14
      LD("add10"), LDC(IntV(20)), CALL(1),                 \* 15 .. 17
      ASSIGN("result"),                                    \* 18
      LD("println"), LD("result"), CALL(1),                \* 19 .. 21
      EXITSCOPE, DONE>>                                    \* 22, 23

\* The same two functions, called from a program scope that binds x to 1,
\* the result left on the operand stack.
ProgShadowed ==
    <<ENTERSCOPE(<<"higher_order", "add10", "x">>),   \* 0
      LDC(IntV(1)), ASSIGN("x"),                       \* 1, 2
      LDF(6, <<"x">>), ASSIGN("higher_order"),         \* 3, 4
      GOTO(13),                                        \* 5
      LDF(8, <<"y">>), GOTO(12),                       \* 6, 7
      LD("x"), LD("y"), BINOP("Add"), RESET,           \* 8 .. 11
      RESET,                                           \* 12
      LD("higher_order"), LDC(IntV(10)), CALL(1),      \* 13 .. 15
      ASSIGN("add10"),                                 \* 16
      LD("add10"), LDC(IntV(20)), CALL(1),             \* 17 .. 19
      EXITSCOPE, DONE>>                                \* 20, 21

\* A call whose callee enters a block and returns from inside it, made with
\* a value already on the operand stack.
ProgCall ==
    <<ENTERSCOPE(<<"f">>),                             \* 0
      LDF(4, <<"n">>), ASSIGN("f"), GOTO(7),           \* 1 .. 3
      ENTERSCOPE(<<"z">>), LD("n"), RESET,             \* 4 .. 6
      LDC(IntV(100)), LD("f"), LDC(IntV(7)), CALL(1),  \* 7 .. 10
      EXITSCOPE, DONE>>                                \* 11, 12

\* The program's result is a closure created in a scope that is exited.
ProgResultClosure ==
    <<ENTERSCOPE(<<"x">>), LDF(3, <<>>), EXITSCOPE, DONE>>

Programs ==
    {ProgWaitPost, ProgWaitOne, ProgJoin, ProgJoinEmpty, ProgSpawn, ProgLoop,
     ProgSpawnLoop, ProgClosure, ProgHigherOrder, ProgCall, ProgResultClosure,
     ProgRespawn, ProgJoinUnknown, ProgMainBlocked, ProgJoinInScope,
     ProgRunOff, ProgAssignNested, ProgMutex,
     ProgJoinTwice, ProgGlobalConstants, ProgGlobalFunctions, ProgShadowed}

\* The semaphores a program loads.
sems_used(instrs) ==
    {h \in SemHandles : \E i \in 1..Len(instrs) :
        instrs[i].op = "LDC" /\ instrs[i].val = SemV(h)}

----------------------------------------------------------------------------
(* The compiler (compiler/oxidate/src/compiler.rs) and the AST it reads    *)
(* (parser/src/structs.rs).  Every compile function takes the vector `arr` *)
(* of the instructions emitted so far and gives the vector it leaves; jump *)
(* targets are indices into that vector.                                    *)

Integer(n) == [k |-> "Integer", val |-> n]
Bool(b) == [k |-> "Bool", val |-> b]
Symbol(sym) == [k |-> "Symbol", sym |-> sym]
UnOpExpr(op, expr) == [k |-> "UnOpExpr", op |-> op, expr |-> expr]
BinOpExpr(op, lhs, rhs) == [k |-> "BinOpExpr", op |-> op, lhs |-> lhs, rhs |-> rhs]
BlockExpr(blk) == [k |-> "BlockExpr", blk |-> blk]
IfElseExpr(if_else) == [k |-> "IfElseExpr", if_else |-> if_else]

BlockSeq(decls, last_expr, symbols) ==
    [decls |-> decls, last_expr |-> last_expr, symbols |-> symbols]
IfElseData(cond, if_blk, else_blk) ==
    [cond |-> cond, if_blk |-> if_blk, else_blk |-> else_blk]

ExprStmt(expr) == [k |-> "ExprStmt", expr |-> expr]
LetStmt(ident, expr) == [k |-> "LetStmt", ident |-> ident, expr |-> expr]
Assign(ident, expr) == [k |-> "Assign", ident |-> ident, expr |-> expr]

\* arr[idx] = instr, idx counted from 0 as in the Vec.
Patch(arr, idx, instr) == [arr EXCEPT ![idx + 1] = instr]

\* A block is none-like if it has no last expression, or if its last
\* expression is a block that is none-like.
RECURSIVE blk_produces_nothing(_)
blk_produces_nothing(blk) ==
    IF blk.last_expr # None
    THEN IF blk.last_expr[1].k = "BlockExpr"
         THEN blk_produces_nothing(blk.last_expr[1].blk)
         ELSE FALSE
    ELSE TRUE

RECURSIVE compile_expr(_, _, _)
RECURSIVE compile_block(_, _, _)
RECURSIVE compile_decls(_, _)
RECURSIVE compile_if_else(_, _, _)

compile_unop(op, expr, arr) ==
    Append(compile_expr(expr, FALSE, arr),
           IF op = "Negate" THEN UNOP("Neg") ELSE UNOP("Not"))

\* a && b: a; JOF(L_false); b; GOTO(L_end); L_false: LDC(false); L_end:
compile_logical_and(lhs, rhs, arr) ==
    LET a1 == compile_expr(lhs, FALSE, arr)
        jof_idx == Len(a1)
        a2 == compile_expr(rhs, FALSE, Append(a1, JOF(0)))
        goto_idx == Len(a2)
        a3 == Append(a2, GOTO(0))
        l_false == Len(a3)
        a4 == Append(a3, LDC(BoolV(FALSE)))
    IN  Patch(Patch(a4, jof_idx, JOF(l_false)), goto_idx, GOTO(Len(a4)))

\* a || b: a; JOF(L_right); LDC(true); GOTO(L_end); L_right: b; L_end:
compile_logical_or(lhs, rhs, arr) ==
    LET a1 == compile_expr(lhs, FALSE, arr)
        jof_idx == Len(a1)
        a2 == Append(Append(a1, JOF(0)), LDC(BoolV(TRUE)))
        goto_idx == Len(a2)
        a3 == Append(a2, GOTO(0))
        l_right == Len(a3)
        a4 == compile_expr(rhs, FALSE, a3)
    IN  Patch(Patch(a4, jof_idx, JOF(l_right)), goto_idx, GOTO(Len(a4)))

\* A variant of compile_binop that compiles && and || as the arithmetic
\* operators: both operands, then a BINOP.
compile_binop_eager(op, lhs, rhs, arr) ==
    Append(compile_expr(rhs, FALSE, compile_expr(lhs, FALSE, arr)),
           BINOP(CASE op = "LogicalAnd" -> "And"
                   [] op = "LogicalOr" -> "Or"
                   [] op = "LogicalEq" -> "Eq"
                   [] OTHER -> op))

\* compiler.rs has the four arithmetic arms, each pushing the bytecode
\* operator of the same name.  The other operators of the parser are
\* compiled as tests.rs gives them: < and > as BinOp::Lt and BinOp::Gt, ==
\* (BinOpType::LogicalEq) as BinOp::Eq (test_compile_binop_cmp), && and ||
\* lowered to jumps (test_compile_logical_ops).
compile_binop(op, lhs, rhs, arr) ==
    IF op = "LogicalAnd" THEN compile_logical_and(lhs, rhs, arr)
    ELSE IF op = "LogicalOr" THEN compile_logical_or(lhs, rhs, arr)
    ELSE Append(compile_expr(rhs, FALSE, compile_expr(lhs, FALSE, arr)),
                BINOP(IF op = "LogicalEq" THEN "Eq" ELSE op))

compile_expr(expr, as_stmt, arr) ==
    CASE expr.k = "Integer" -> Append(arr, LDC(IntV(expr.val)))
      [] expr.k = "Bool" -> Append(arr, LDC(BoolV(expr.val)))
      [] expr.k = "BinOpExpr" -> compile_binop(expr.op, expr.lhs, expr.rhs, arr)
      [] expr.k = "UnOpExpr" -> compile_unop(expr.op, expr.expr, arr)
      [] expr.k = "Symbol" -> Append(arr, LD(expr.sym))
      [] expr.k = "BlockExpr" -> compile_block(expr.blk, as_stmt, arr)
      [] expr.k = "IfElseExpr" -> compile_if_else(expr.if_else, FALSE, arr)

compile_assign(ident, expr, arr) ==
    Append(Append(compile_expr(expr, FALSE, arr), ASSIGN(ident)), LDC(Unit))

compile_decl(decl, arr) ==
    CASE decl.k = "ExprStmt" -> compile_expr(decl.expr, TRUE, arr)
      [] decl.k = "LetStmt" -> compile_assign(decl.ident, decl.expr, arr)
      [] decl.k = "Assign" -> compile_assign(decl.ident, decl.expr, arr)

\* for decl in decls { compile_decl(decl, arr)?; arr.push(POP); }
compile_decls(decls, arr) ==
    IF decls = <<>> THEN arr
    ELSE compile_decls(Tail(decls), Append(compile_decl(Head(decls), arr), POP))

\* A variant of compile_block that emits no EXITSCOPE.
compile_block_no_exit(blk, as_stmt, arr) ==
    LET syms == blk.symbols
        a0 == IF syms # <<>> THEN Append(arr, ENTERSCOPE(syms)) ELSE arr
        a1 == compile_decls(blk.decls, a0)
        a2 == IF blk.last_expr # None
              THEN compile_expr(blk.last_expr[1], FALSE, a1)
              ELSE a1
    IN  IF blk_produces_nothing(blk) /\ as_stmt
        THEN Append(a2, LDC(Unit))
        ELSE a2

compile_block(blk, as_stmt, arr) ==
    LET syms == blk.symbols
        a0 == IF syms # <<>> THEN Append(arr, ENTERSCOPE(syms)) ELSE arr
        a1 == compile_decls(blk.decls, a0)
        a2 == IF blk.last_expr # None
              THEN compile_expr(blk.last_expr[1], FALSE, a1)
              ELSE a1
        a3 == IF syms # <<>> THEN Append(a2, EXITSCOPE) ELSE a2
    IN  IF blk_produces_nothing(blk) /\ as_stmt
        THEN Append(a3, LDC(Unit))
        ELSE a3

\* A variant of compile_if_else whose JOF jumps to the GOTO that ends the then
\* part instead of the instruction after it.
compile_if_else_jof_at_goto(if_else, as_stmt, arr) ==
    LET a1 == compile_expr(if_else.cond, FALSE, arr)
        jof_idx == Len(a1)
        a2 == compile_block(if_else.if_blk, as_stmt, Append(a1, JOF(0)))
        goto_idx == Len(a2)
        a3 == Append(a2, GOTO(0))
        a4 == IF if_else.else_blk # None
              THEN compile_block(if_else.else_blk[1], as_stmt, a3)
              ELSE a3
        goto_addr == Len(a4)
    IN  Patch(Patch(a4, jof_idx, JOF(goto_idx)), goto_idx, GOTO(goto_addr))


compile_if_else(if_else, as_stmt, arr) ==
    LET a1 == compile_expr(if_else.cond, FALSE, arr)
        jof_idx == Len(a1)
        a2 == compile_block(if_else.if_blk, as_stmt, Append(a1, JOF(0)))
        goto_idx == Len(a2)
        a3 == Append(a2, GOTO(0))
        jof_addr == Len(a3)
        a4 == IF if_else.else_blk # None
              THEN compile_block(if_else.else_blk[1], as_stmt, a3)
              ELSE a3
        goto_addr == Len(a4)
    IN  Patch(Patch(a4, jof_idx, JOF(jof_addr)), goto_idx, GOTO(goto_addr))

\* A variant of compile that compiles the program as a statement, so that a
\* program that produces nothing ends with LDC(Unit).
compile_as_stmt(program) == Append(compile_block(program, TRUE, <<>>), DONE)

compile(program) == Append(compile_block(program, FALSE, <<>>), DONE)

----------------------------------------------------------------------------
(* run: one action per step of its loop. *)

Running == phase \notin {"returned_ok", "returned_err", "panicked"}

\* The order of the checks at the top of the loop.
check_order(p) ==
    CASE p = "quantum_check" -> "yield_check"
      [] p = "yield_check" -> "block_check"
      [] p = "block_check" -> "post_check"
      [] p = "post_check" -> "join_check"
      [] p = "join_check" -> "fetch"

\* The checks written as one else-if chain: a check that fires skips the rest.
next_check_else_if(p, taken) == IF taken THEN "fetch" ELSE check_order(p)

\* The checks of run are separate `if`s: whether or not a check fired, the
\* next one is made.
next_check(p, taken) == check_order(p)

\* The outcome of a fallible step: go on at `next`, return Err, or panic.
Outcome(res, next, did) ==
    IF res.out = "ok"
    THEN /\ rt' = res.rt
         /\ phase' = next
         /\ err' = err
         /\ last' = did
    ELSE /\ rt' = rt
         /\ phase' = IF res.out = "panic" THEN "panicked" ELSE "returned_err"
         /\ err' = IF res.out = "panic" THEN res.msg ELSE res.out
         /\ last' = "failed"

\* get_current_thread_state panics when the current thread has no entry.
NoState(r) == Panic("Current thread not found", r)

\* The steps of one pass of the loop, as functions of the runtime.
yield_step(r) ==
    IF ~has_current_thread_state(r) THEN NoState(r)
    ELSE IF should_yield_current_thread(r) THEN Ok(yield_current_thread(r))
    ELSE Ok(r)

block_step(r) ==
    IF ~has_current_thread_state(r) THEN NoState(r)
    ELSE IF is_current_thread_blocked(r) THEN block_current_thread(r)
    ELSE Ok(r)

post_step(r) == IF is_post_signaled(r) THEN Ok(signal_post(r)) ELSE Ok(r)

join_step(r) ==
    IF ~has_current_thread_state(r) THEN NoState(r)
    ELSE IF is_current_thread_joining(r) THEN join_current_thread(r)
    ELSE Ok(r)

fetch_execute_step(r) ==
    LET f == fetch_instr(r) IN
    IF f.out = "ok"
    THEN execute(f.rt, f.instr)
    ELSE f

NoHistory == [entered |-> 0, exited |-> 0, pcs |-> {}]

\* The history after the current thread has executed the instruction at pc.
Executing(h, instr, pc) ==
    [entered |-> h.entered + (IF instr.op = "ENTERSCOPE" THEN 1 ELSE 0),
     exited |-> h.exited + (IF instr.op = "EXITSCOPE" THEN 1 ELSE 0),
     pcs |-> h.pcs \cup {pc}]

Init ==
    \E instrs \in Programs :
    \E sems \in [SemHandles -> 0..MaxSemInit] :
        /\ \A h \in SemHandles \ sems_used(instrs) : sems[h] = 0
        /\ instrs = ProgMutex => sems[1] = 1
        /\ rt = Runtime_new(instrs, sems)
        /\ phase = "quantum_check"
        /\ err = "none"
        /\ last = "new"
        /\ waiting = {}
        /\ hist = NoHistory

\* if rt.time_quantum_expired() { rt = rt.yield_current_thread(); }
QuantumExpired ==
    /\ phase = "quantum_check"
    /\ rt' = yield_current_thread(rt)
    /\ phase' = next_check("quantum_check", TRUE)
    /\ last' = "preempt"
    /\ UNCHANGED <<err, waiting, hist>>

QuantumNotExpired ==
    /\ phase = "quantum_check"
    /\ phase' = next_check("quantum_check", FALSE)
    /\ last' = "none"
    /\ UNCHANGED <<rt, err, waiting, hist>>

\* if rt.should_yield_current_thread() { rt = rt.yield_current_thread(); }
YieldCheck ==
    /\ phase = "yield_check"
    /\ Outcome(yield_step(rt),
               next_check("yield_check",
                   has_current_thread_state(rt) /\ should_yield_current_thread(rt)),
               IF has_current_thread_state(rt) /\ should_yield_current_thread(rt)
               THEN "yield" ELSE "none")
    /\ UNCHANGED <<waiting, hist>>

\* if rt.is_current_thread_blocked() { rt = rt.block_current_thread(); }
BlockCheck ==
    /\ phase = "block_check"
    /\ Outcome(block_step(rt),
               next_check("block_check",
                   has_current_thread_state(rt) /\ is_current_thread_blocked(rt)),
               IF has_current_thread_state(rt) /\ is_current_thread_blocked(rt)
               THEN "block" ELSE "none")
    /\ UNCHANGED <<waiting, hist>>

\* if rt.is_post_signaled() { rt = rt.signal_post(); }
PostCheck ==
    /\ phase = "post_check"
    /\ Outcome(post_step(rt),
               next_check("post_check", is_post_signaled(rt)),
               IF is_post_signaled(rt) THEN "signal_post" ELSE "none")
    /\ waiting' = IF is_post_signaled(rt)
                  THEN {w \in waiting : w[2] # rt.signal[1]}
                  ELSE waiting
    /\ UNCHANGED hist

\* if rt.is_current_thread_joining() { rt = rt.join_current_thread()?; }
JoinCheck ==
    /\ phase = "join_check"
    /\ Outcome(join_step(rt),
               next_check("join_check",
                   has_current_thread_state(rt) /\ is_current_thread_joining(rt)),
               IF has_current_thread_state(rt) /\ is_current_thread_joining(rt)
               THEN (IF join_target_is_zombie(rt) THEN "join_ok" ELSE "join_retry")
               ELSE "none")
    /\ UNCHANGED <<waiting, hist>>

\* let instr = rt.fetch_instr()?; execute(&mut rt, instr)?; with res what
\* the two calls give.
FetchExecute(res) ==
    /\ phase = "fetch"
    /\ LET f == fetch_instr(rt)
           instr == instr_at(rt, rt.current_thread.pc)
       IN  /\ (f.out = "ok" /\ instr.op = "SPAWN") => rt.thread_count < MaxThreads
           /\ Outcome(res, "done_check", IF f.out = "ok" THEN instr.op ELSE "failed")
           /\ waiting' =
                IF /\ res.out = "ok"
                   /\ instr.op = "WAIT"
                   /\ has_current_thread_state(res.rt)
                   /\ get_current_thread_state(res.rt).s = "Blocked"
                THEN waiting \cup
                       {<<cur_id(rt), get_current_thread_state(res.rt).sem>>}
                ELSE waiting
           /\ hist' = IF res.out = "ok"
                      THEN Executing(hist, instr, rt.current_thread.pc)
                      ELSE hist

Execute == FetchExecute(fetch_execute_step(rt))

\* if !done { continue }  if !main { zombify; continue }  break
DoneCheck ==
    /\ phase = "done_check"
    /\ IF ~has_current_thread_state(rt)
       THEN Outcome(NoState(rt), "quantum_check", "none")
       ELSE IF ~is_current_thread_done(rt)
       THEN Outcome(Ok(rt), "quantum_check", "none")
       ELSE IF ~is_current_main_thread(rt)
       THEN Outcome(zombify_current_thread(rt), "quantum_check", "zombify")
       ELSE Outcome(Ok(rt), "returned_ok", "halt")
    /\ UNCHANGED <<waiting, hist>>

\* mark_and_weep on the runtime that run has returned (gc.rs, test_gc_01
\* and test_gc_02); run itself never collects.
Collect ==
    /\ phase = "returned_ok"
    /\ Outcome(mark_and_weep(rt), phase, "gc")
    /\ UNCHANGED <<waiting, hist>>

\* mark_and_weep while the machine is paused between two instructions.
CollectPaused ==
    /\ phase = "quantum_check"
    /\ Outcome(mark_and_weep(rt), phase, "gc")
    /\ UNCHANGED <<waiting, hist>>

\* The program: run, and the collector on what run returns.
Next ==
    \/ QuantumExpired
    \/ QuantumNotExpired
    \/ YieldCheck
    \/ BlockCheck
    \/ PostCheck
    \/ JoinCheck
    \/ Execute
    \/ DoneCheck
    \/ Collect

Spec == Init /\ [][Next]_vars

\* The program with a collector that also runs while the machine is paused
\* between two instructions.
SpecPaused == Init /\ [][Next \/ CollectPaused]_vars

\* let instr = rt.fetch_instr()?; execute(&mut rt, instr)?; and, after a
\* SPAWN, rt.set_thread_state(rt.thread_count, ThreadState::Ready);
caller_step(st) ==
    LET f == fetch_instr(st.rt)
        r1 == execute(f.rt, f.instr).rt
    IN  [rt   |-> IF f.instr.op = "SPAWN"
                  THEN set_thread_state(r1, r1.thread_count, Ready)
                  ELSE r1,
         hist |-> Executing(st.hist, f.instr, st.rt.current_thread.pc)]

RECURSIVE caller_steps(_, _)
caller_steps(st, k) ==
    IF k = 0 THEN st ELSE caller_steps(caller_step(st), k - 1)

\* The runtime a caller hands to run after it has stepped the main thread
\* through the first k instructions of the program and registered the
\* children: k is 0 (run is called on Runtime::new(instrs) as it is) or the
\* length of a prefix made of SPAWN, LDC and ENTERSCOPE that ends with a
\* SPAWN.
InitCaller ==
    \E instrs \in Programs :
    \E sems \in [SemHandles -> 0..MaxSemInit] :
    \E k \in {0} \cup {n \in 1..Len(instrs) :
                         /\ instrs[n].op = "SPAWN"
                         /\ \A j \in 1..n :
                               instrs[j].op \in {"SPAWN", "LDC", "ENTERSCOPE"}} :
        LET st == caller_steps([rt |-> Runtime_new(instrs, sems),
                                hist |-> NoHistory], k)
        IN  /\ \A h \in SemHandles \ sems_used(instrs) : sems[h] = 0
            /\ instrs = ProgMutex => sems[1] = 1
            /\ rt = st.rt
            /\ phase = "quantum_check"
            /\ err = "none"
            /\ last = "new"
            /\ waiting = {}
            /\ hist = st.hist

\* run on a runtime prepared by its caller; every SPAWN that run executes
\* itself is spawn.rs as written.
SpecCaller == InitCaller /\ [][Next]_vars

----------------------------------------------------------------------------
(* Source programs, as the parser hands them to the compiler, and the      *)
(* machine started on their compiled code.                                  *)

Blk(decls, last_expr) == BlockSeq(decls, last_expr, <<>>)

\* 42; 30
SrcTail == Blk(<<ExprStmt(Integer(42))>>, Some(Integer(30)))

\* 42;
SrcStmts == Blk(<<ExprStmt(Integer(42))>>, None)

\* let x = 2; x + 3
SrcLet ==
    BlockSeq(<<LetStmt("x", Integer(2))>>,
             Some(BinOpExpr("Add", Symbol("x"), Integer(3))), <<"x">>)

\* let x = 2; x = 5;
SrcAssign ==
    BlockSeq(<<LetStmt("x", Integer(2)), Assign("x", Integer(5))>>, None, <<"x">>)

\* { 2; }; 7
SrcBlkStmt ==
    Blk(<<ExprStmt(BlockExpr(Blk(<<ExprStmt(Integer(2))>>, None)))>>,
        Some(Integer(7)))

\* { { } };
SrcNoneLikeStmt ==
    Blk(<<ExprStmt(BlockExpr(Blk(<<>>, Some(BlockExpr(Blk(<<>>, None))))))>>, None)

\* let x = 2; { let y = 3; x + y }
SrcNested ==
    BlockSeq(<<LetStmt("x", Integer(2))>>,
             Some(BlockExpr(BlockSeq(<<LetStmt("y", Integer(3))>>,
                                     Some(BinOpExpr("Add", Symbol("x"), Symbol("y"))),
                                     <<"y">>))),
             <<"x">>)

\* if c { let y = 1; y } else { 2 }
SrcIfElseTail(c) ==
    Blk(<<>>,
        Some(IfElseExpr(IfElseData(Bool(c),
                BlockSeq(<<LetStmt("y", Integer(1))>>, Some(Symbol("y")), <<"y">>),
                Some(Blk(<<>>, Some(Integer(2))))))))

\* if c { 2 } else { 3 }  200
SrcIfElseStmt(c) ==
    Blk(<<ExprStmt(IfElseExpr(IfElseData(Bool(c),
                Blk(<<>>, Some(Integer(2))),
                Some(Blk(<<>>, Some(Integer(3)))))))>>,
        Some(Integer(200)))

\* if c { 2; } else { 3; }  200
SrcIfElseStmtNoneLike(c) ==
    Blk(<<ExprStmt(IfElseExpr(IfElseData(Bool(c),
                Blk(<<ExprStmt(Integer(2))>>, None),
                Some(Blk(<<ExprStmt(Integer(3))>>, None)))))>>,
        Some(Integer(200)))

\* if c { 2 }  200
SrcIfOnly(c) ==
    Blk(<<ExprStmt(IfElseExpr(IfElseData(Bool(c),
                Blk(<<>>, Some(Integer(2))), None)))>>,
        Some(Integer(200)))

\* tests::test_compile_if: if c { 10; 2 } else { 20; 3 }
SrcCompileIf(c) ==
    Blk(<<>>,
        Some(IfElseExpr(IfElseData(Bool(c),
                Blk(<<ExprStmt(Integer(10))>>, Some(Integer(2))),
                Some(Blk(<<ExprStmt(Integer(20))>>, Some(Integer(3))))))))

\* if c { if d { 1 } else { 2 } } else { if d { 3 } else { 4 } }
SrcIfElseNested(c, d) ==
    Blk(<<>>,
        Some(IfElseExpr(IfElseData(Bool(c),
                Blk(<<>>, Some(IfElseExpr(IfElseData(Bool(d),
                        Blk(<<>>, Some(Integer(1))),
                        Some(Blk(<<>>, Some(Integer(2)))))))),
                Some(Blk(<<>>, Some(IfElseExpr(IfElseData(Bool(d),
                        Blk(<<>>, Some(Integer(3))),
                        Some(Blk(<<>>, Some(Integer(4)))))))))))))

\* { 2; }
SrcTailNoneLike ==
    Blk(<<>>, Some(BlockExpr(Blk(<<ExprStmt(Integer(2))>>, None))))

\* let x = { { } };
SrcLetNoneLike ==
    BlockSeq(<<LetStmt("x", BlockExpr(Blk(<<>>, Some(BlockExpr(Blk(<<>>, None))))))>>,
             None, <<"x">>)

\* The operands of the logical expressions: literals and nested && and ||.
LogicOperands ==
    {Bool(TRUE), Bool(FALSE),
     BinOpExpr("LogicalAnd", Bool(TRUE), Bool(FALSE)),
     BinOpExpr("LogicalOr", Bool(FALSE), Bool(TRUE))}

\* a && b and a || b
LogicExprs ==
    {BinOpExpr(op, a, b) : op \in {"LogicalAnd", "LogicalOr"},
                           a \in LogicOperands, b \in LogicOperands}

\* The program whose only content is the tail expression e.
SrcExpr(e) == Blk(<<>>, Some(e))

SourcePrograms ==
    {SrcTail, SrcStmts, SrcLet, SrcAssign, SrcBlkStmt, SrcNoneLikeStmt,
     SrcNested, SrcLetNoneLike, SrcTailNoneLike}
    \cup {SrcIfElseTail(c) : c \in BOOLEAN}
    \cup {SrcIfElseStmt(c) : c \in BOOLEAN}
    \cup {SrcIfElseStmtNoneLike(c) : c \in BOOLEAN}
    \cup {SrcIfOnly(c) : c \in BOOLEAN}
    \cup {SrcCompileIf(c) : c \in BOOLEAN}
    \cup {SrcIfElseNested(c, d) : c \in BOOLEAN, d \in BOOLEAN}
    \cup {SrcExpr(e) : e \in LogicExprs}
    \cup {SrcExpr(BinOpExpr(op, BinOpExpr("Add", Integer(2), Integer(2)), Integer(3))) :
             op \in {"Lt", "Gt", "LogicalEq"}}
    \cup {SrcExpr(BinOpExpr("LogicalEq",
                    BinOpExpr("Lt", Integer(4), Integer(6)),
                    BinOpExpr("LogicalEq", Bool(FALSE),
                              BinOpExpr("Gt", Integer(3), Integer(3)))))}

\* Runtime::new(compile(program)).
InitCompiled ==
    \E src \in SourcePrograms :
        /\ rt = Runtime_new(compile(src), [h \in SemHandles |-> 0])
        /\ phase = "quantum_check"
        /\ err = "none"
        /\ last = "new"
        /\ waiting = {}
        /\ hist = NoHistory

SpecCompiled == InitCompiled /\ [][Next]_vars

----------------------------------------------------------------------------
(* Vocabulary of the properties. *)

Seq2Set(q) == {q[i] : i \in 1..Len(q)}

\* The threads the scheduler still runs: current, ready, blocked.
LiveThreads(r) ==
    {r.current_thread} \cup Seq2Set(r.ready_queue) \cup Seq2Set(r.blocked_queue)

ThreadIds == 1..MaxThreads

IsPrefix(p, q) == Len(p) <= Len(q) /\ SubSeq(q, 1, Len(p)) = p

\* An instruction was fetched and executed in this step.
Executed == phase = "fetch" /\ phase' = "done_check"

----------------------------------------------------------------------------
(* C1 *)

\* C1: a thread that executed WAIT on a semaphore whose counter was 0
\* executes no instruction until a POST on that semaphore has been
\* signalled, in every interleaving.
C1_BlockedUntilPost ==
    [][Executed => \A w \in waiting : w[1] # cur_id(rt)]_vars

----------------------------------------------------------------------------
(* C2 *)

\* Environments of the closures bound in the frames of E.
closure_envs_in(r, E) ==
    {v.env : v \in UNION {{x \in Range(r.env_registry[e].env) : x.t = "Closure"} :
                          e \in E \cap DOMAIN r.env_registry}}

parents_of(r, E) ==
    {r.env_registry[e].parent[1] :
        e \in {x \in E \cap DOMAIN r.env_registry : r.env_registry[x].parent # None}}

RECURSIVE reach_envs(_, _)
reach_envs(r, E) ==
    LET E1 == E \cup parents_of(r, E) \cup closure_envs_in(r, E)
    IN  IF E1 = E THEN E ELSE reach_envs(r, E1)

\* Every environment a live thread can still reach: its own, those saved in
\* its frames, those captured by closures on its operand stack, and from
\* these the parents and the environments captured by closures stored in
\* variables.
ReachableEnvs(r) ==
    reach_envs(r,
        UNION {{th.env} \cup Range(closure_envs(th.operand_stack))
                        \cup {th.runtime_stack[i].env : i \in 1..Len(th.runtime_stack)} :
               th \in LiveThreads(r)})

\* C2: whenever mark_and_weep has run between two instructions, every
\* environment a live thread can reach, also through a closure held only in
\* a variable, is still in the registry.
C2_ReachableEnvsRegistered ==
    Running => ReachableEnvs(rt) \subseteq DOMAIN rt.env_registry

----------------------------------------------------------------------------
(* C3 *)

----------------------------------------------------------------------------
(* C4 *)

----------------------------------------------------------------------------
(* C5 *)

----------------------------------------------------------------------------
(* C6 *)

\* C6: whenever an instruction is fetched the pending-post slot is empty;
\* the slot is emptied only by the signal step, which adds exactly 1 to the
\* semaphore that was in it, also when the poster was preempted right
\* after its POST.
C6_PostSignalledBeforeFetch ==
    /\ [](phase = "fetch" => rt.signal = None)
    /\ [][(rt.signal # None /\ rt'.signal # rt.signal)
          => /\ phase = "post_check"
             /\ rt'.signal = None
             /\ rt'.sems = [rt.sems EXCEPT ![rt.signal[1]] = @ + 1]]_vars

\* A post has just been signalled: the slot is empty again, the counter of
\* the semaphore has gone up to 1 and the poster, the only thread of the
\* program, is still the current thread, its POST the last instruction it
\* executed.
C6_Witness ==
    /\ last = "signal_post"
    /\ rt.instrs = ProgWaitOne
    /\ rt.signal = None
    /\ rt.sems[1] = 1
    /\ rt.ready_queue = <<>>
    /\ instr_at(rt, rt.current_thread.pc - 1) = POST

----------------------------------------------------------------------------
(* C7 *)

StateOf(r, t) == IF t \in DOMAIN r.thread_states THEN r.thread_states[t] ELSE [s |-> "None"]

\* C7: Joining(tid) is set only by the thread's own JOIN instruction and is
\* cleared only by a successful join; no yield, quantum expiry or other
\* scheduler step replaces it.
C7_JoiningSetAndCleared ==
    [][\A t \in ThreadIds :
          /\ (StateOf(rt, t).s = "Joining" /\ StateOf(rt', t) # StateOf(rt, t))
                => (phase = "join_check" /\ last' = "join_ok" /\ cur_id(rt) = t)
          /\ (StateOf(rt', t).s = "Joining" /\ StateOf(rt', t) # StateOf(rt, t))
                => (Executed /\ last' = "JOIN" /\ cur_id(rt) = t)]_vars

----------------------------------------------------------------------------
(* C8 *)

\* C8: run returns as soon as the main thread executes DONE, whatever the
\* other threads are doing: the runtime is returned as it is, main is its
\* current thread, and no thread in the ready or blocked queue runs again.
C8_HaltOnMainDone ==
    /\ [](phase = "returned_ok"
            => is_current_main_thread(rt) /\ is_current_thread_done(rt))
    /\ [][(/\ phase = "done_check"
           /\ cur_id(rt) = MAIN_THREAD_ID
           /\ rt.thread_states[MAIN_THREAD_ID] = Done)
          => (phase' = "returned_ok" /\ rt' = rt)]_vars
    /\ [][phase = "returned_ok"
          => /\ rt'.current_thread = rt.current_thread
             /\ rt'.ready_queue = rt.ready_queue
             /\ rt'.blocked_queue = rt.blocked_queue
             /\ rt'.thread_states = rt.thread_states]_vars

\* run has returned on the main thread's DONE with the spawned thread left
\* in the ready queue, at its first instruction.
C8_Witness ==
    /\ phase = "returned_ok"
    /\ last = "halt"
    /\ rt.instrs = ProgSpawn
    /\ cur_id(rt) = MAIN_THREAD_ID
    /\ Len(rt.ready_queue) = 1
    /\ rt.ready_queue[1].pc = 5

----------------------------------------------------------------------------
(* C9 *)

\* C9: SPAWN(addr) by thread P makes the thread counter n, appends to the
\* ready queue a child with id n, PC addr, P's environment and copies of
\* P's stacks with Int(0) pushed, pushes n on P's operand stack, and leaves
\* P current.
C9_Spawn ==
    [][(Executed /\ last' = "SPAWN")
       => LET P == rt.current_thread
              addr == instr_at(rt, P.pc).addr
              n == rt.thread_count + 1
          IN  /\ rt'.thread_count = n
              /\ rt'.ready_queue =
                    Append(rt.ready_queue,
                           [thread_id |-> n, pc |-> addr, env |-> P.env,
                            operand_stack |-> Append(P.operand_stack, IntV(0)),
                            runtime_stack |-> P.runtime_stack])
              /\ rt'.current_thread =
                    [P EXCEPT !.pc = @ + 1,
                              !.operand_stack = Append(@, IntV(n))]]_vars

\* A SPAWN has just been executed by a thread with a value on its operand
\* stack below the child's id and a frame on its runtime stack.
C9_Witness ==
    /\ last = "SPAWN"
    /\ phase = "done_check"
    /\ rt.current_thread.runtime_stack # <<>>
    /\ Len(rt.current_thread.operand_stack) >= 2
    /\ rt.ready_queue # <<>>

----------------------------------------------------------------------------
(* C10 *)

InReady(t) == \E i \in 1..Len(rt.ready_queue) : rt.ready_queue[i].thread_id = t

----------------------------------------------------------------------------
(* C11 *)

\* Passes of the loop followed when the rest of a run is computed.
MaxTurns == 16

NoSpawn(instrs) == \A i \in 1..Len(instrs) : instrs[i].op # "SPAWN"

\* What run ends with.
Returned(r) == [out |-> "ok", stack |-> r.current_thread.operand_stack]
Failed(res) ==
    [out |-> IF res.out = "panic" THEN "panic" ELSE "err",
     err |-> IF res.out = "panic" THEN res.msg ELSE res.out]

\* The rest of run from the second check of a pass on, the quantum never
\* expiring again: what it ends with, or "running" after `turns` passes.
RECURSIVE run_rest(_, _)
run_rest(r, turns) ==
    LET a == yield_step(r) IN
    IF a.out # "ok" THEN Failed(a) ELSE
    LET b == block_step(a.rt) IN
    IF b.out # "ok" THEN Failed(b) ELSE
    LET c == post_step(b.rt) IN
    LET d == join_step(c.rt) IN
    IF d.out # "ok" THEN Failed(d) ELSE
    LET e == fetch_execute_step(d.rt) IN
    IF e.out # "ok" THEN Failed(e) ELSE
    IF ~has_current_thread_state(e.rt) THEN Failed(NoState(e.rt))
    ELSE IF ~is_current_thread_done(e.rt)
    THEN IF turns = 0 THEN [out |-> "running"] ELSE run_rest(e.rt, turns - 1)
    ELSE IF ~is_current_main_thread(e.rt)
    THEN LET z == zombify_current_thread(e.rt) IN
         IF z.out # "ok" THEN Failed(z)
         ELSE IF turns = 0 THEN [out |-> "running"] ELSE run_rest(z.rt, turns - 1)
    ELSE Returned(e.rt)

\* C11: for a program that never spawns a thread, the outcome of run (the
\* final operand stack of main, or the error or abort) does not depend on
\* where the quantum expires: at the top of every pass, the run that goes on
\* after an expiry ends as the run that goes on without one.
C11_QuantumDoesNotChangeOutcome ==
    (phase = "quantum_check" /\ NoSpawn(rt.instrs))
        => run_rest(yield_current_thread(rt), MaxTurns) = run_rest(rt, MaxTurns)

----------------------------------------------------------------------------
(* C12 *)

\* C12: a closure called after the scope that created it has been exited
\* resolves its free variables in the frame captured at LDF, not in the
\* caller's frame: in ProgShadowed the body of the closure returned by
\* higher_order(10), called from the program scope where x is 1, reads x as
\* 10 and y as 20, and the program ends with 30.
C12_CapturedFrameResolves ==
    /\ [][(/\ phase = "fetch"
           /\ rt.instrs = ProgShadowed
           /\ rt.current_thread.pc \in {8, 9})
          => /\ phase' = "done_check"
             /\ Top(rt'.current_thread.operand_stack) =
                   IF rt.current_thread.pc = 8 THEN IntV(10) ELSE IntV(20)]_vars
    /\ []((phase = "returned_ok" /\ rt.instrs = ProgShadowed)
            => rt.current_thread.operand_stack = <<IntV(30)>>)

\* The closure's body has just read x: the scope that created the closure
\* (the call of higher_order) has been left, and the caller's frame binds x
\* to another value.
C12_Witness ==
    /\ rt.instrs = ProgShadowed
    /\ phase = "done_check"
    /\ last = "LD"
    /\ rt.current_thread.pc = 9
    /\ Top(rt.current_thread.operand_stack) = IntV(10)
    /\ Len(rt.current_thread.runtime_stack) = 2
    /\ Environment_get(rt, Top(rt.current_thread.runtime_stack).env, "x") = Some(IntV(1))

----------------------------------------------------------------------------
(* C13 *)

\* Index of the topmost call frame of a runtime stack (0 if there is none).
TopCallFrame(rs) ==
    IF \E i \in 1..Len(rs) : rs[i].frame_type = "CallFrame"
    THEN CHOOSE i \in 1..Len(rs) :
            /\ rs[i].frame_type = "CallFrame"
            /\ \A j \in (i + 1)..Len(rs) : rs[j].frame_type # "CallFrame"
    ELSE 0

\* C13: CALL(n) of a User closure takes the callee and its n arguments off
\* the operand stack and pushes one call frame holding the caller's
\* environment and return PC; RESET(CallFrame) discards the frames above the
\* topmost call frame and that frame itself, restores its environment and
\* PC and leaves the operand stack, with the return value on top, as it is.
\* Together: after the return the runtime stack is as deep as before the
\* CALL and callee and arguments are replaced by the one return value.
C13_CallThenReset ==
    /\ [][(/\ Executed
           /\ last' = "CALL"
           /\ LET th == rt.current_thread
                  os == th.operand_stack
              IN  os[Len(os) - instr_at(rt, th.pc).arity].fn_type = "User")
          => LET th == rt.current_thread
                 n == instr_at(rt, th.pc).arity
                 os == th.operand_stack
             IN  /\ rt'.current_thread.operand_stack = SubSeq(os, 1, Len(os) - n - 1)
                 /\ rt'.current_thread.runtime_stack =
                        Append(th.runtime_stack, CallFrame(th.env, th.pc + 1))
                 /\ rt'.current_thread.pc = os[Len(os) - n].addr]_vars
    /\ [][(Executed /\ last' = "RESET")
          => LET th == rt.current_thread
                 i == TopCallFrame(th.runtime_stack)
             IN  /\ i > 0
                 /\ rt'.current_thread.runtime_stack = SubSeq(th.runtime_stack, 1, i - 1)
                 /\ rt'.current_thread.env = th.runtime_stack[i].env
                 /\ rt'.current_thread.pc = th.runtime_stack[i].address
                 /\ rt'.current_thread.operand_stack = th.operand_stack
                 /\ th.operand_stack # <<>>]_vars
    /\ []((rt.instrs = ProgCall /\ phase = "done_check" /\ last = "RESET")
            => /\ rt.current_thread.pc = 11
               /\ rt.current_thread.operand_stack = <<IntV(100), IntV(7)>>
               /\ rt.current_thread.runtime_stack = <<BlockFrame(GlobalEnv)>>
               /\ Environment_get(rt, rt.current_thread.env, "f") # None)

\* The callee of ProgCall has returned from inside the block it entered:
\* the block frame and the call frame are gone and the return value lies on
\* the value that was on the stack before the call.
C13_Witness ==
    /\ rt.instrs = ProgCall
    /\ phase = "done_check"
    /\ last = "RESET"
    /\ rt.current_thread.pc = 11
    /\ rt.current_thread.operand_stack = <<IntV(100), IntV(7)>>
    /\ Len(rt.current_thread.runtime_stack) = 1

----------------------------------------------------------------------------
(* Compiled programs.  The properties below are read under SpecCompiled,   *)
(* where rt.instrs = compile(src) for a source program src.                 *)

\* The instruction the current thread fetches next is one with opcode o.
AtFetchOf(o) ==
    /\ phase = "fetch"
    /\ rt.current_thread.pc < Len(rt.instrs)
    /\ rt.instrs[rt.current_thread.pc + 1].op = o

\* The compiled program has no if without else.
EveryIfHasElse == \A c \in BOOLEAN : rt.instrs # compile(SrcIfOnly(c))

\* C14: a statement-terminating POP never finds the operand stack empty, and
\* after it the operand stack has the depth it had before the statement
\* began.  Every statement of the source programs begins with an empty
\* operand stack (no block is an operand of an operator), so the depth after
\* each POP is 0.  The programs include block statements and if-else
\* statements whose blocks are none-like; an if without else is left to C16.
C14_StatementPopBalanced ==
    /\ []((EveryIfHasElse /\ AtFetchOf("POP"))
            => rt.current_thread.operand_stack # <<>>)
    /\ [][(EveryIfHasElse /\ AtFetchOf("POP"))
          => /\ phase' = "done_check"
             /\ rt'.current_thread.operand_stack = <<>>]_vars

\* C15: an expression compiled in expression position pushes exactly one
\* value.  The right-hand side of a let or an assignment is in expression
\* position and, in the source programs, starts on an empty operand stack:
\* when ASSIGN is fetched the stack holds exactly the one value of the
\* right-hand side.  A block whose tail is missing or none-like pushes Unit
\* there: let x = { { } }; assigns Unit to x.
C15_ExpressionPushesOne ==
    /\ AtFetchOf("ASSIGN") => Len(rt.current_thread.operand_stack) = 1
    /\ (/\ rt.instrs = compile(SrcLetNoneLike)
        /\ phase = "done_check"
        /\ last = "ASSIGN")
       => Environment_get(rt, rt.current_thread.env, "x") = Some(Unit)

\* C16: an if without else in statement position is compiled with an
\* implicit else that pushes Unit, so that on the taken and on the not-taken
\* path the POP that follows the statement finds exactly one value.
C16_IfOnlyPopFindsOne ==
    \A c \in BOOLEAN :
        (rt.instrs = compile(SrcIfOnly(c)) /\ AtFetchOf("POP"))
            => Len(rt.current_thread.operand_stack) = 1

\* The truth value of a Bool literal or of a logical expression.
RECURSIVE EvalBool(_)
EvalBool(e) ==
    IF e.k = "Bool" THEN e.val
    ELSE IF e.op = "LogicalAnd" THEN EvalBool(e.lhs) /\ EvalBool(e.rhs)
    ELSE EvalBool(e.lhs) \/ EvalBool(e.rhs)

\* The addresses of the code of the right operand in compile(SrcExpr(e)).
RhsAddrs(e) ==
    LET a1 == compile_expr(e.lhs, FALSE, <<>>)
        first == IF e.op = "LogicalAnd" THEN Len(a1) + 1 ELSE Len(a1) + 3
        n == Len(compile_expr(e.rhs, FALSE, <<>>))
    IN  first .. (first + n - 1)

\* The left operand alone decides the value of e.
ShortCircuits(e) ==
    IF e.op = "LogicalAnd" THEN ~EvalBool(e.lhs) ELSE EvalBool(e.lhs)

\* C17: the code of a && b and of a || b has no BINOP for the logical
\* operator (with Bool literals as operands it consists of LDC, JOF and GOTO
\* only); it leaves exactly one Bool, the conjunction or disjunction of the
\* operands; and when the left operand decides the value, no instruction of
\* the right operand is executed.
C17_ShortCircuit ==
    \A e \in LogicExprs :
        rt.instrs = compile(SrcExpr(e)) =>
            /\ \A i \in 1..Len(rt.instrs) :
                   rt.instrs[i].op \in {"LDC", "JOF", "GOTO", "DONE"}
            /\ phase \notin {"returned_err", "panicked"}
            /\ phase = "returned_ok"
               => rt.current_thread.operand_stack = <<BoolV(EvalBool(e))>>
            /\ ShortCircuits(e) => hist.pcs \cap RhsAddrs(e) = {}

\* A run of a short-circuited expression whose right operand is itself a
\* logical expression has returned.
C17_Witness ==
    /\ phase = "returned_ok"
    /\ \E e \in LogicExprs :
          /\ rt.instrs = compile(SrcExpr(e))
          /\ ShortCircuits(e)
          /\ e.rhs.k = "BinOpExpr"
          /\ Cardinality(hist.pcs) > 3

\* C18: on every normally terminating execution of a compiled program the
\* number of ENTERSCOPE instructions executed equals the number of EXITSCOPE
\* instructions executed.
C18_ScopesBalanced ==
    phase = "returned_ok" => hist.entered = hist.exited

\* A program with a block nested in the program's block has returned, and
\* so has one that entered a scope in the taken branch of an if-else.
C18_Witness ==
    /\ phase = "returned_ok"
    /\ \/ rt.instrs = compile(SrcNested) /\ hist.entered = 2
       \/ rt.instrs = compile(SrcIfElseTail(TRUE)) /\ hist.entered = 1

\* C19: when run halts on a compiled program, the main thread's operand
\* stack holds exactly one value, the program's result, if the program has a
\* value-producing tail expression, and is empty if the program produces
\* nothing: it consists of statements only, or its tail is a none-like block
\* (a block without a tail or with a none-like tail, as { 2; }).
C19_ResultAtDone ==
    \A src \in SourcePrograms :
        (phase = "returned_ok" /\ rt.instrs = compile(src))
            => /\ ~blk_produces_nothing(src)
                  => Len(rt.current_thread.operand_stack) = 1
               /\ blk_produces_nothing(src)
                  => rt.current_thread.operand_stack = <<>>

\* run has halted on let x = 2; x + 3 with the result 5 alone on the main
\* thread's operand stack.
C19_Witness ==
    /\ phase = "returned_ok"
    /\ rt.instrs = compile(SrcLet)
    /\ rt.current_thread.operand_stack = <<IntV(5)>>
    /\ rt.current_thread.runtime_stack = <<>>

\* run has halted on { 2; } with an empty operand stack.
C19_WitnessNoneLike ==
    /\ phase = "returned_ok"
    /\ rt.instrs = compile(SrcTailNoneLike)
    /\ rt.current_thread.operand_stack = <<>>

----------------------------------------------------------------------------
(* C20 *)

\* run has returned, the main thread has left every scope and every call,
\* no thread is queued, and the registry has been collected since.
CollectedAfterHalt ==
    /\ phase = "returned_ok"
    /\ last = "gc"
    /\ rt.current_thread.runtime_stack = <<>>
    /\ rt.current_thread.env = GlobalEnv
    /\ rt.ready_queue = <<>>
    /\ rt.blocked_queue = <<>>

\* C20 as stated: after run has halted with the main thread out of every
\* scope and call and no thread in the ready or blocked queue, mark_and_weep
\* leaves exactly one environment in the registry, the global one.
C20_OnlyGlobalAsStated ==
    CollectedAfterHalt => DOMAIN rt.env_registry = {GlobalEnv}

\* C20: the same, when in addition no closure is left on the main thread's
\* operand stack; the environment of a closure left there is kept, with its
\* parents (mark_operand_stack).
C20_OnlyGlobalLeft ==
    (CollectedAfterHalt /\ closure_envs(rt.current_thread.operand_stack) = <<>>)
        => DOMAIN rt.env_registry = {GlobalEnv}

\* ProgHigherOrder has printed 30 and returned, and the frames of its
\* program scope and of its two calls have been collected.
C20_Witness ==
    /\ CollectedAfterHalt
    /\ rt.instrs = ProgHigherOrder
    /\ rt.current_thread.operand_stack = <<Unit>>
    /\ rt.env_count >= 4
    /\ DOMAIN rt.env_registry = {GlobalEnv}

----------------------------------------------------------------------------
(* C21 *)

\* C21: WAIT on a semaphore whose counter is at least 1 takes one off the
\* counter and leaves the thread as it was, current and not Blocked; the
\* signal step of a POST on a semaphore nobody waits for adds one and moves
\* no thread.  On one thread, wait s; post s; with s created at 1 (the WAIT
\* did not block) never fails and returns with the counter at 1.
C21_WaitThenPost ==
    /\ [][(/\ AtFetchOf("WAIT")
           /\ rt.current_thread.operand_stack # <<>>
           /\ Top(rt.current_thread.operand_stack).t = "Semaphore"
           /\ rt.sems[Top(rt.current_thread.operand_stack).h] >= 1)
          => LET h == Top(rt.current_thread.operand_stack).h
             IN  /\ phase' = "done_check"
                 /\ rt'.sems = [rt.sems EXCEPT ![h] = @ - 1]
                 /\ rt'.thread_states = rt.thread_states
                 /\ rt'.current_thread.thread_id = cur_id(rt)
                 /\ rt'.ready_queue = rt.ready_queue
                 /\ rt'.blocked_queue = rt.blocked_queue]_vars
    /\ [][(/\ phase = "post_check"
           /\ is_post_signaled(rt)
           /\ \A t \in DOMAIN rt.thread_states :
                 rt.thread_states[t] # Blocked(rt.signal[1]))
          => /\ rt'.sems = [rt.sems EXCEPT ![rt.signal[1]] = @ + 1]
             /\ rt'.ready_queue = rt.ready_queue
             /\ rt'.blocked_queue = rt.blocked_queue
             /\ rt'.thread_states = rt.thread_states
             /\ rt'.current_thread = rt.current_thread]_vars
    /\ (rt.instrs = ProgWaitOne /\ rt.sems[1] = 1 /\ rt.current_thread.pc = 0)
         => [](/\ phase \notin {"returned_err", "panicked"}
               /\ waiting = {}
               /\ rt.thread_states[MAIN_THREAD_ID].s # "Blocked"
               /\ phase = "returned_ok" => (rt.sems[1] = 1 /\ rt.signal = None))

\* wait s; post s; has returned without the WAIT having blocked.
C21_Witness ==
    /\ rt.instrs = ProgWaitOne
    /\ phase = "returned_ok"
    /\ waiting = {}
    /\ rt.sems[1] = 1
    /\ hist.pcs = {0, 1, 2, 3, 4}

----------------------------------------------------------------------------
(* C22 *)

\* C22: after SPAWN the child's ThreadID has an entry in the thread-state
\* table, with state Ready, so that the state of the current thread can be
\* read whichever thread is current.
C22_ChildRegisteredReady ==
    /\ [][(Executed /\ last' = "SPAWN")
          => StateOf(rt', rt'.thread_count) = Ready]_vars
    /\ [](Running => has_current_thread_state(rt))

----------------------------------------------------------------------------
(* C23 *)

\* The thread records held anywhere in the runtime, as a sequence.
AllThreads(r) ==
    <<r.current_thread>> \o r.ready_queue \o r.blocked_queue
        \o [i \in 1..Cardinality(DOMAIN r.zombie_threads) |->
               r.zombie_threads[CHOOSE t \in DOMAIN r.zombie_threads :
                   Cardinality({u \in DOMAIN r.zombie_threads : u < t}) = i - 1]]

\* The ThreadIDs held as the current thread, in the ready queue, in the
\* blocked queue and in the zombie table.
HeldIds(r) == {AllThreads(r)[i].thread_id : i \in 1..Len(AllThreads(r))}

\* ThreadID t was given by a SPAWN and its thread has been joined: the
\* successful join is the only step that takes a thread record out of the
\* runtime, and it takes the entry of the thread-state table with it.
Joined(r, t) ==
    /\ t \in 2..r.thread_count
    /\ t \notin DOMAIN r.thread_states
    /\ t \notin HeldIds(r)

----------------------------------------------------------------------------
(* C24 *)

\* C24: a join attempt on a ThreadID that has no entry in the thread-state
\* table makes run return the error ThreadNotFound(tid).
C24_JoinUnknownReturnsError ==
    [][(/\ phase = "join_check"
        /\ is_current_thread_joining(rt)
        /\ get_current_thread_state(rt).tid \notin DOMAIN rt.thread_states)
       => (phase' = "returned_err" /\ err' = "ThreadNotFound")]_vars

----------------------------------------------------------------------------
(* C25 *)

\* The environments from which the collector starts: of every live thread
\* its environment, the environments of the closures on its operand stack
\* and the environments saved in the frames of its runtime stack.
GcRoots(r) ==
    UNION {{th.env} \cup Range(closure_envs(th.operand_stack))
                    \cup {th.runtime_stack[i].env : i \in 1..Len(th.runtime_stack)} :
           th \in LiveThreads(r)}

\* E and everything reached from it by parent links.
RECURSIVE parent_reach(_, _)
parent_reach(r, E) ==
    LET E1 == E \cup parents_of(r, E)
    IN  IF E1 = E THEN E ELSE parent_reach(r, E1)

----------------------------------------------------------------------------
(* C26 *)

\* Thread tid has executed DONE: it is a zombie, or it was one and has been
\* joined and deallocated.
HasExecutedDone(r, tid) ==
    \/ StateOf(r, tid) \in {Done, Zombie}
    \/ Joined(r, tid)

\* C26: a thread that has executed JOIN(tid) executes no instruction that
\* follows that JOIN until thread tid has executed DONE.  In the programs a
\* thread reaches the address after a JOIN only through that JOIN, so:
\* whenever the instruction after a JOIN(tid) is fetched, tid has executed
\* DONE.
C26_NoInstructionBeforeJoinee ==
    (/\ phase = "fetch"
     /\ rt.current_thread.pc \in 1..(Len(rt.instrs) - 1)
     /\ instr_at(rt, rt.current_thread.pc - 1).op = "JOIN")
        => HasExecutedDone(rt, instr_at(rt, rt.current_thread.pc - 1).tid)

----------------------------------------------------------------------------
(* C27 *)

\* C27: yield_current_thread, called at quantum expiry and for a thread in
\* state Yielded, sets the state of the current thread to Ready, appends the
\* thread to the back of the ready queue and makes the front of the queue
\* the current thread, and changes nothing else; it never fails; and when
\* no other thread is ready, the yielding thread is current again at once,
\* with its PC, stacks and environment as they were.
C27_YieldCurrentThread ==
    [][(\/ phase = "quantum_check" /\ last' = "preempt"
        \/ /\ phase = "yield_check"
           /\ has_current_thread_state(rt)
           /\ should_yield_current_thread(rt))
       => LET q == Append(rt.ready_queue, rt.current_thread)
          IN  /\ phase' \in {"yield_check", "block_check"}
              /\ DOMAIN rt'.thread_states = DOMAIN rt.thread_states
              /\ \A t \in DOMAIN rt.thread_states :
                    rt'.thread_states[t] =
                        IF t = cur_id(rt) THEN Ready ELSE rt.thread_states[t]
              /\ rt'.current_thread = Head(q)
              /\ rt'.ready_queue = Tail(q)
              /\ rt' = [rt EXCEPT !.thread_states = rt'.thread_states,
                                  !.current_thread = rt'.current_thread,
                                  !.ready_queue = rt'.ready_queue]
              /\ rt.ready_queue = <<>>
                    => /\ rt'.current_thread = rt.current_thread
                       /\ rt'.ready_queue = <<>>]_vars

\* A thread that executed YIELD has just been put behind the two threads
\* that were ready.
C27_Witness ==
    /\ last = "yield"
    /\ rt.instrs = ProgMutex
    /\ Len(rt.ready_queue) = 2
    /\ cur_id(rt) = 2
    /\ rt.ready_queue[2].thread_id = MAIN_THREAD_ID
    /\ instr_at(rt, rt.ready_queue[2].pc - 1) = YIELD
    /\ rt.thread_states[MAIN_THREAD_ID] = Ready

\* The only thread has yielded and is current again where it was.
C27_WitnessAlone ==
    /\ last = "preempt"
    /\ rt.thread_count = 1
    /\ rt.ready_queue = <<>>
    /\ rt.current_thread.pc > 0
    /\ rt.current_thread.operand_stack # <<>>

----------------------------------------------------------------------------
(* C28 *)

\* A thread other than main has executed DONE and run is about to act on
\* it.
OtherThreadDone ==
    /\ phase = "done_check"
    /\ has_current_thread_state(rt)
    /\ is_current_thread_done(rt)
    /\ ~is_current_main_thread(rt)

\* The thread is stored in the zombie table as it is, its state is Zombie,
\* the front of the ready queue is the current thread, and run goes on.
Zombified ==
    /\ phase' = "quantum_check"
    /\ rt'.zombie_threads = MapInsert(rt.zombie_threads, cur_id(rt), rt.current_thread)
    /\ rt'.zombie_threads[cur_id(rt)].operand_stack = rt.current_thread.operand_stack
    /\ rt'.thread_states = MapInsert(rt.thread_states, cur_id(rt), Zombie)
    /\ rt'.current_thread = Head(rt.ready_queue)
    /\ rt'.ready_queue = Tail(rt.ready_queue)
    /\ rt'.blocked_queue = rt.blocked_queue

\* A zombie leaves the zombie table only by a successful join on its ID, and
\* is not changed while it is there.
ZombieStaysUntilJoined ==
    \A t \in DOMAIN rt.zombie_threads :
        IF t \in DOMAIN rt'.zombie_threads
        THEN rt'.zombie_threads[t] = rt.zombie_threads[t]
        ELSE /\ phase = "join_check"
             /\ last' = "join_ok"
             /\ get_current_thread_state(rt) = Joining(t)

----------------------------------------------------------------------------
(* C29 *)

\* The record of thread t, wherever the runtime holds it.
ThreadRecord(r, t) ==
    LET ths == AllThreads(r)
    IN  ths[CHOOSE i \in 1..Len(ths) : ths[i].thread_id = t]

----------------------------------------------------------------------------
(* C30: fetch_instr. *)

\* The PC is an index of the instruction array (zero-based addresses).
ValidPc(r) == r.current_thread.pc \in 0..(Len(r.instrs) - 1)

\* C30: whenever the loop is about to fetch, fetch_instr returns
\* PcOutOfBounds(pc) exactly when the current thread's PC is not a valid index
\* of the instruction array, naming that PC and leaving the runtime, PC
\* included, as it was; otherwise it returns the instruction at the PC and a
\* runtime that differs only in the PC, which is one larger, and it is that
\* runtime the instruction is dispatched on.
C30_FetchInstr ==
    /\ (phase = "returned_err" /\ err = "PcOutOfBounds") => ~ValidPc(rt)
    /\ phase = "fetch" =>
        LET f  == fetch_instr(rt)
            pc == rt.current_thread.pc
        IN  /\ (f.out = "PcOutOfBounds") <=> ~ValidPc(rt)
            /\ f.out \in {"ok", "PcOutOfBounds"}
            /\ ~ValidPc(rt) => /\ f.pc = pc
                               /\ f.rt = rt
                               /\ fetch_execute_step(rt) = f
            /\ ValidPc(rt) =>
                  /\ f.instr = rt.instrs[pc + 1]
                  /\ f.rt = [rt EXCEPT !.current_thread.pc = pc + 1]
                  /\ f.rt.current_thread.pc = pc + 1
                  /\ fetch_execute_step(rt) = execute(f.rt, f.instr)

\* A fetch past the end of the program has made run return PcOutOfBounds
\* with the PC still outside the instruction array.
C30_Witness ==
    /\ phase = "returned_err"
    /\ err = "PcOutOfBounds"
    /\ last = "failed"
    /\ rt.instrs = ProgRunOff
    /\ rt.current_thread.pc = 4
    /\ ~ValidPc(rt)

----------------------------------------------------------------------------
(* C31: the jump targets of a compiled if-else. *)

\* The programs that contain an if-else with both parts.
IfElseSources ==
    {SrcIfElseTail(c) : c \in BOOLEAN}
    \cup {SrcIfElseStmt(c) : c \in BOOLEAN}
    \cup {SrcIfElseStmtNoneLike(c) : c \in BOOLEAN}
    \cup {SrcCompileIf(c) : c \in BOOLEAN}
    \cup {SrcIfElseNested(c, d) : c \in BOOLEAN, d \in BOOLEAN}

\* tests::test_compile_if, the expected vector, for either condition.
ExpCompileIf(c) ==
    << LDC(BoolV(c)), JOF(6), LDC(IntV(10)), POP, LDC(IntV(2)), GOTO(9),
       LDC(IntV(20)), POP, LDC(IntV(3)), DONE >>

\* The layout of the nested if-else, laid out by hand from compile_if_else.
ExpIfElseNested(c, d) ==
    << LDC(BoolV(c)), JOF(8),
       LDC(BoolV(d)), JOF(6), LDC(IntV(1)), GOTO(7), LDC(IntV(2)),
       GOTO(13),
       LDC(BoolV(d)), JOF(12), LDC(IntV(3)), GOTO(13), LDC(IntV(4)),
       DONE >>

\* The addresses the nested if-else executes for conditions c and d.
PathIfElseNested(c, d) ==
    IF c THEN (IF d THEN {0, 1, 2, 3, 4, 5, 7, 13} ELSE {0, 1, 2, 3, 6, 7, 13})
    ELSE (IF d THEN {0, 1, 8, 9, 10, 11, 13} ELSE {0, 1, 8, 9, 12, 13})

\* C31: in the code of every program with an if-else, nested ones included,
\* each JOF names the address just after a GOTO that lies behind it, that
\* GOTO names an address at or after the JOF's target, and both targets are
\* addresses of the final instruction vector; the vectors of test_compile_if
\* and of the nested if-else are the expected ones, and a run of the nested
\* if-else executes exactly the addresses of the parts its conditions select.
C31_IfElseJumpTargets ==
    /\ (\E s \in IfElseSources : rt.instrs = compile(s)) =>
         \A i \in 0..(Len(rt.instrs) - 1) :
            LET ins == instr_at(rt, i) IN
            /\ ins.op = "JOF" =>
                 /\ ins.addr \in (i + 2)..(Len(rt.instrs) - 1)
                 /\ instr_at(rt, ins.addr - 1).op = "GOTO"
                 /\ instr_at(rt, ins.addr - 1).addr
                        \in ins.addr..(Len(rt.instrs) - 1)
            /\ ins.op = "GOTO" => ins.addr \in (i + 1)..(Len(rt.instrs) - 1)
    /\ \A c \in BOOLEAN :
         rt.instrs = compile(SrcCompileIf(c)) => rt.instrs = ExpCompileIf(c)
    /\ \A c \in BOOLEAN, d \in BOOLEAN :
         rt.instrs = compile(SrcIfElseNested(c, d)) =>
            /\ rt.instrs = ExpIfElseNested(c, d)
            /\ hist.pcs \subseteq PathIfElseNested(c, d)
            /\ phase = "returned_ok" =>
                 /\ hist.pcs = PathIfElseNested(c, d)
                 /\ rt.current_thread.operand_stack =
                      << IntV(IF c THEN (IF d THEN 1 ELSE 2)
                                   ELSE (IF d THEN 3 ELSE 4)) >>

\* The nested if-else has run with the outer condition false and the inner
\* one true, and has left 3.
C31_Witness ==
    /\ phase = "returned_ok"
    /\ rt.instrs = compile(SrcIfElseNested(FALSE, TRUE))
    /\ rt.instrs[2] = JOF(8)
    /\ rt.instrs[8] = GOTO(13)
    /\ hist.pcs = {0, 1, 8, 9, 10, 11, 13}
    /\ rt.current_thread.operand_stack = << IntV(3) >>

----------------------------------------------------------------------------
(* C32: ASSIGN from a nested scope. *)

\* C32: when ASSIGN(sym) is executed in a frame that does not bind sym while
\* an enclosing frame does, the value popped is written to the nearest
\* enclosing frame that binds sym and the current frame gets no binding of
\* sym; so { let x = 1; { let y; x = 2; } x } ends with 2.
C32_AssignToEnclosingFrame ==
    /\ [][(/\ AtFetchOf("ASSIGN")
           /\ rt.current_thread.operand_stack # <<>>
           /\ env_alive(rt, rt.current_thread.env)
           /\ instr_at(rt, rt.current_thread.pc).sym
                 \notin DOMAIN rt.env_registry[rt.current_thread.env].env
           /\ binding_frame(rt, rt.current_thread.env,
                            instr_at(rt, rt.current_thread.pc).sym) # None)
          => LET sym == instr_at(rt, rt.current_thread.pc).sym
                 cur == rt.current_thread.env
                 fr  == binding_frame(rt, cur, sym)[1]
             IN  /\ phase' = "done_check"
                 /\ rt'.env_registry[fr].env[sym] =
                        Top(rt.current_thread.operand_stack)
                 /\ sym \notin DOMAIN rt'.env_registry[cur].env
                 /\ rt'.current_thread.env = cur]_vars
    /\ []((rt.instrs = ProgAssignNested /\ phase = "returned_ok")
            => rt.current_thread.operand_stack = << IntV(2) >>)

C32_Witness ==
    /\ rt.instrs = ProgAssignNested
    /\ phase = "returned_ok"
    /\ hist.pcs = 0..9
    /\ rt.current_thread.operand_stack = << IntV(2) >>
    /\ "x" \notin DOMAIN rt.env_registry[3].env
    /\ rt.env_registry[2].env["x"] = IntV(2)

----------------------------------------------------------------------------
(* C33: POST does not hand the processor over. *)

\* The ThreadIDs of a queue, in queue order.
QueueIds(q) == [i \in 1..Len(q) |-> q[i].thread_id]

\* The steps in which the current thread gives the processor up: explicit
\* yield, quantum expiry, a failed join attempt, blocking, and DONE.
GivesUp == {"yield", "preempt", "join_retry", "block", "zombify"}

----------------------------------------------------------------------------
(* C34: the scheduler neither duplicates nor drops a thread. *)

----------------------------------------------------------------------------
(* C35: the thread-state table agrees with the queues. *)

\* C35: at every instruction fetch each thread of the ready queue has state
\* Ready, each thread of the blocked queue has a state Blocked(s), each
\* thread of the zombie table has state Zombie and the current thread has an
\* entry; and whenever signal_post runs every thread of the blocked queue has
\* a state Blocked(s), so that none is discarded.
C35_StatesAgreeWithQueues ==
    /\ [](phase = "fetch" =>
            /\ \A i \in 1..Len(rt.ready_queue) :
                  StateOf(rt, rt.ready_queue[i].thread_id) = Ready
            /\ \A i \in 1..Len(rt.blocked_queue) :
                  StateOf(rt, rt.blocked_queue[i].thread_id).s = "Blocked"
            /\ \A t \in DOMAIN rt.zombie_threads : StateOf(rt, t) = Zombie
            /\ cur_id(rt) \in DOMAIN rt.thread_states)
    /\ []((phase = "post_check" /\ is_post_signaled(rt)) =>
            \A i \in 1..Len(rt.blocked_queue) :
                StateOf(rt, rt.blocked_queue[i].thread_id).s = "Blocked")
    /\ [][(phase = "post_check" /\ is_post_signaled(rt))
            => Len(rt'.ready_queue) + Len(rt'.blocked_queue)
                 = Len(rt.ready_queue) + Len(rt.blocked_queue)]_vars

----------------------------------------------------------------------------
(* C36: mutual exclusion with a binary semaphore. *)

\* The threads of ProgMutex that are between their WAIT and their POST: the
\* WAIT at address 3 has been executed and has not left the thread Blocked,
\* and the POST at address 6 has not been executed.
InSection(r) ==
    {i \in 1..Len(AllThreads(r)) :
        /\ AllThreads(r)[i].pc \in 4..6
        /\ StateOf(r, AllThreads(r)[i].thread_id).s \notin {"Blocked", "Zombie"}}

----------------------------------------------------------------------------
(* C37: nothing left to run. *)

\* The current thread is Blocked and the ready queue is empty, at a point of
\* the loop between the WAIT that blocked it and the block check.
BlockedWithNothingReady ==
    /\ phase \in {"done_check", "quantum_check", "yield_check", "block_check"}
    /\ has_current_thread_state(rt)
    /\ get_current_thread_state(rt).s = "Blocked"
    /\ rt.ready_queue = << >>

\* C37: once the current thread is Blocked with the ready queue empty, the
\* loop takes no step but towards the block check, the thread still Blocked
\* and the queue still empty, and the block check aborts with "No threads in
\* ready queue"; a non-main thread that has executed DONE with the ready
\* queue empty aborts in the same way.  Neither case returns, with Ok or
\* with an error, or executes a further instruction.
C37_AbortsWhenNothingReady ==
    /\ [][BlockedWithNothingReady
            => \/ /\ phase = "block_check"
                  /\ phase' = "panicked"
                  /\ err' = "No threads in ready queue"
               \/ /\ phase # "block_check"
                  /\ phase' \in {"quantum_check", "yield_check", "block_check"}
                  /\ has_current_thread_state(rt')
                  /\ get_current_thread_state(rt').s = "Blocked"
                  /\ cur_id(rt') = cur_id(rt)
                  /\ rt'.ready_queue = << >>]_vars
    /\ [][(OtherThreadDone /\ rt.ready_queue = << >>)
            => /\ phase' = "panicked"
               /\ err' = "No threads in ready queue"]_vars

----------------------------------------------------------------------------
(* C38: one joiner per finished thread. *)

----------------------------------------------------------------------------
(* C39: the collector finds every root allocated. *)

\* C39: between two instructions, and after the run, every environment a
\* root refers to (the environment of a current, ready or blocked thread, of
\* a closure on its operand stack, of a frame of its runtime stack) and
\* every parent reached from one is in the registry, so that the mark phase
\* does not fail, whatever collections ran before.
C39_RootsAllocated ==
    /\ [](phase \in {"quantum_check", "returned_ok"} =>
            /\ parent_reach(rt, GcRoots(rt)) \subseteq DOMAIN rt.env_registry
            /\ ~mark(rt).panicked)
    /\ [][(phase \in {"quantum_check", "returned_ok"} /\ last' = "gc")
            => phase' = phase]_vars

----------------------------------------------------------------------------
(* C40: a collection is idempotent and only shrinks the registry. *)

\* C40: wherever a collection may run and completes, the registry it leaves
\* is a part of the registry it found, entry for entry, nothing else of the
\* runtime (threads, queues, thread states, stacks, semaphores) differs, and
\* a second collection right after it completes too and changes nothing;
\* and this is what a collection step of the run does.
C40_CollectIdempotent ==
    /\ []((phase \in {"quantum_check", "returned_ok"} /\ ~mark(rt).panicked) =>
            LET once  == mark_and_weep(rt)
                twice == mark_and_weep(once.rt)
            IN  /\ once.out = "ok"
                /\ DOMAIN once.rt.env_registry \subseteq DOMAIN rt.env_registry
                /\ \A e \in DOMAIN once.rt.env_registry :
                      once.rt.env_registry[e] = rt.env_registry[e]
                /\ once.rt = [rt EXCEPT !.env_registry = once.rt.env_registry]
                /\ twice.out = "ok"
                /\ twice.rt = once.rt)
    /\ [][(last' = "gc" /\ phase' = phase)
            => /\ rt' = mark_and_weep(rt).rt
               /\ DOMAIN rt'.env_registry \subseteq DOMAIN rt.env_registry
               /\ mark_and_weep(rt') = Ok(rt')]_vars

\* A collection on the runtime that run has returned for test_gc_02 has
\* just dropped every environment the program created and kept the
\* global one; the main thread's operand stack is as it was, and a further
\* collection changes nothing.
C40_Witness ==
    /\ last = "gc"
    /\ phase = "returned_ok"
    /\ rt.instrs = ProgHigherOrder
    /\ rt.env_count = 4
    /\ DOMAIN rt.env_registry = {GlobalEnv}
    /\ rt.current_thread.operand_stack = << Unit >>
    /\ mark_and_weep(rt) = Ok(rt)

====
